---- MODULE Spec2Model ----
(***************************************************************************)
(* Audio segmentation and manifest reconciliation of kr_scraper            *)
(* (src/py_scripts/src/kr_scraper/segment.py), with the manifests that     *)
(* lesson1.py and lesson3.py create.                                       *)
(*                                                                         *)
(* A JSON object / Python dict is a function whose DOMAIN is its key set;  *)
(* a Hangul syllable is its Unicode code point; a jamo is named by its     *)
(* Unicode name ("KIYEOK" = U+3131); times are milliseconds.               *)
(***************************************************************************)
EXTENDS Integers, Sequences, FiniteSets, TLC

VARIABLES
    manifest,   \* the persisted manifest.json
    clips,      \* syllables/<key>.mp3 on disk: key -> what the clip was cut from
    audio,      \* source file path -> "ok" | "missing" | "corrupt"
    last,       \* the last operation: its name, arguments and return value
    ops,        \* number of operations run so far
    inflight    \* process -> the operation it is in the middle of: its position,
                \* its arguments and the manifest it loaded

vars == <<manifest, clips, audio, last, ops, inflight>>

\* the processes that work on a lesson directory, none of them in an operation
Procs == {"editor", "segmenter"}

Idle == [p \in Procs |-> [pc |-> "idle"]]

(***************************************************************************)
(* Python helpers                                                          *)
(***************************************************************************)
EmptyDict == [k \in {} |-> 0]

\* JSON null / Python None as a value of a dict entry
None == [null |-> TRUE]

IsDict(v) == v # None

Has(d, k) == k \in DOMAIN d

Get(d, k, default) == IF k \in DOMAIN d THEN d[k] ELSE default

\* dict.update / {**a, **b}: the keys of b win
Update(a, b) == [k \in (DOMAIN a) \cup (DOMAIN b) |-> IF k \in DOMAIN b THEN b[k] ELSE a[k]]

\* d with key k deleted
Del(d, k) == [j \in (DOMAIN d) \ {k} |-> d[j]]

Max(a, b) == IF a >= b THEN a ELSE b

Min(a, b) == IF a <= b THEN a ELSE b

\* seq[n:] and seq[:-n]
DropFirst(seq, n) == IF n >= Len(seq) THEN <<>> ELSE SubSeq(seq, n + 1, Len(seq))

DropLast(seq, n) == IF n >= Len(seq) THEN <<>> ELSE SubSeq(seq, 1, Len(seq) - n)

Range(seq) == {seq[i] : i \in 1..Len(seq)}

\* Path.name
Basename(path) ==
    CASE path = "rows/row_d.mp3" -> "row_d.mp3"
      [] path = "rows/row_g.mp3" -> "row_g.mp3"
      [] path = "rows/row_ae.mp3" -> "row_ae.mp3"
      [] path = "columns/col_a.mp3" -> "col_a.mp3"
      [] path = "rows/row_n.mp3" -> "row_n.mp3"
      [] path = "rows/row_k.mp3" -> "row_k.mp3"
      [] OTHER -> path

(***************************************************************************)
(* Romanization                                                            *)
(***************************************************************************)
HangulBase == 44032

\* lesson1.ROMANIZATION (the jamo of the lesson 1 table)
ROMANIZATION ==
    [I |-> "i", A |-> "a", EO |-> "eo", EU |-> "eu", U |-> "u", O |-> "o",
     PIEUP |-> "b", CIEUC |-> "j", TIKEUT |-> "d", KIYEOK |-> "g", SIOS |-> "s",
     MIEUM |-> "m", NIEUN |-> "n", HIEUH |-> "h", RIEUL |-> "r"]

CHOSEONG_ROM ==
    <<"g", "kk", "n", "d", "tt", "r", "m", "b", "pp", "s",
      "ss", "", "j", "jj", "ch", "k", "t", "p", "h">>

JUNGSEONG_ROM ==
    <<"a", "ae", "ya", "yae", "eo", "e", "yeo", "ye", "o", "wa",
      "wae", "oe", "yo", "u", "wo", "we", "wi", "yu", "eu", "ui", "i">>

JONGSEONG_ROM ==
    <<"", "g", "gg", "gs", "n", "nj", "nh", "d", "r", "rg",
      "rm", "rb", "rs", "rt", "rp", "rh", "m", "b", "bs", "s",
      "ss", "ng", "j", "ch", "k", "t", "p", "h">>

\* segment.romanize_syllable on a composed syllable (a code point): the key
\* segmentation uses for the clip file and the timestamp map
romanize_syllable(syllable) ==
    IF 44032 <= syllable /\ syllable <= 55203
    THEN LET syllable_index == syllable - HangulBase
             cho_index == syllable_index \div 588
             jung_index == (syllable_index % 588) \div 28
             jong_index == syllable_index % 28
         IN CHOSEONG_ROM[cho_index + 1] \o JUNGSEONG_ROM[jung_index + 1]
                \o JONGSEONG_ROM[jong_index + 1]
    ELSE "?"

\* the jamo tables of lesson1.compose_syllable / lesson3.decompose_syllable
CHOSEONG ==
    <<"KIYEOK", "SSANGKIYEOK", "NIEUN", "TIKEUT", "SSANGTIKEUT", "RIEUL", "MIEUM",
      "PIEUP", "SSANGPIEUP", "SIOS", "SSANGSIOS", "IEUNG", "CIEUC", "SSANGCIEUC",
      "CHIEUCH", "KHIEUKH", "THIEUTH", "PHIEUPH", "HIEUH">>

JUNGSEONG ==
    <<"A", "AE", "YA", "YAE", "EO", "E", "YEO", "YE", "O", "WA",
      "WAE", "OE", "YO", "U", "WEO", "WE", "WI", "YU", "EU", "YI", "I">>

IndexOf(seq, x) == CHOOSE i \in 1..Len(seq) : seq[i] = x

compose_syllable(consonant, vowel) ==
    LET cho == IF consonant \in Range(CHOSEONG) THEN IndexOf(CHOSEONG, consonant) - 1 ELSE 0
        jung == IF vowel \in Range(JUNGSEONG) THEN IndexOf(JUNGSEONG, vowel) - 1 ELSE 0
    IN HangulBase + cho * 588 + jung * 28

\* lesson3.CONSONANT_ROMANIZATION: a dict literal, the last entry of a key wins
CONSONANT_ROMANIZATION ==
    [IEUNG |-> "", PIEUP |-> "b", CIEUC |-> "j", TIKEUT |-> "d", KIYEOK |-> "g",
     SIOS |-> "s", MIEUM |-> "m", NIEUN |-> "n", HIEUH |-> "h", RIEUL |-> "l",
     SSANGKIYEOK |-> "kk", SSANGPIEUP |-> "pp", SSANGCIEUC |-> "jj",
     SSANGTIKEUT |-> "tt", SSANGSIOS |-> "ss", KHIEUKH |-> "k", PHIEUPH |-> "p",
     CHIEUCH |-> "ch", THIEUTH |-> "t"]

decompose_syllable(syllable) ==
    LET code == syllable - HangulBase
    IN IF code < 0 \/ code > 11171
       THEN <<"", "">>
       ELSE <<CHOSEONG[(code \div 588) + 1], JUNGSEONG[((code % 588) \div 28) + 1]>>

\* lesson3.romanize_syllable(syllable, vowel_rom)
lesson3_romanize_syllable(syllable, vowel_rom) ==
    Get(CONSONANT_ROMANIZATION, decompose_syllable(syllable)[1], "") \o vowel_rom

(***************************************************************************)
(* Source audio and boundary detection                                     *)
(***************************************************************************)
\* The recordings: each a sequence of runs of constant loudness
\* [dur: ms, dbfs: level].  row_g carries a faint breath at its end, row_d a
\* noise burst at its start, col_a and row_k a fast speaker (pauses of 180
\* and 170 ms), row_n a cough after its third syllable.
AudioRuns(path) ==
    CASE path = "rows/row_g.mp3" ->
            <<[dur |-> 50, dbfs |-> -90], [dur |-> 300, dbfs |-> -20],
              [dur |-> 250, dbfs |-> -90], [dur |-> 300, dbfs |-> -20],
              [dur |-> 250, dbfs |-> -90], [dur |-> 60, dbfs |-> -45],
              [dur |-> 40, dbfs |-> -90]>>
      [] path = "rows/row_d.mp3" ->
            <<[dur |-> 40, dbfs |-> -30], [dur |-> 210, dbfs |-> -90],
              [dur |-> 300, dbfs |-> -20], [dur |-> 250, dbfs |-> -90],
              [dur |-> 300, dbfs |-> -20], [dur |-> 100, dbfs |-> -90]>>
      [] path = "columns/col_a.mp3" ->
            <<[dur |-> 100, dbfs |-> -90], [dur |-> 300, dbfs |-> -20],
              [dur |-> 180, dbfs |-> -90], [dur |-> 300, dbfs |-> -20],
              [dur |-> 120, dbfs |-> -90]>>
      [] path = "rows/row_ae.mp3" ->
            <<[dur |-> 220, dbfs |-> -90], [dur |-> 300, dbfs |-> -20],
              [dur |-> 250, dbfs |-> -90], [dur |-> 300, dbfs |-> -20],
              [dur |-> 30, dbfs |-> -90]>>
      [] path = "rows/row_n.mp3" ->
            <<[dur |-> 100, dbfs |-> -90], [dur |-> 200, dbfs |-> -20],
              [dur |-> 250, dbfs |-> -90], [dur |-> 200, dbfs |-> -20],
              [dur |-> 250, dbfs |-> -90], [dur |-> 200, dbfs |-> -20],
              [dur |-> 250, dbfs |-> -90], [dur |-> 100, dbfs |-> -30],
              [dur |-> 50, dbfs |-> -90]>>
      [] path = "rows/row_k.mp3" ->
            <<[dur |-> 60, dbfs |-> -90], [dur |-> 250, dbfs |-> -20],
              [dur |-> 170, dbfs |-> -90], [dur |-> 250, dbfs |-> -20],
              [dur |-> 170, dbfs |-> -90], [dur |-> 250, dbfs |-> -20],
              [dur |-> 50, dbfs |-> -90]>>
      [] OTHER -> <<>>

RECURSIVE SumDur(_)
SumDur(runs) == IF runs = <<>> THEN 0 ELSE Head(runs).dur + SumDur(Tail(runs))

\* len(audio) of every recording, computed once
AudioLens == [path \in {"rows/row_g.mp3", "rows/row_d.mp3", "columns/col_a.mp3", "rows/row_ae.mp3", "rows/row_n.mp3", "rows/row_k.mp3"} |-> SumDur(AudioRuns(path))]

\* len(audio)
AudioLen(path) == AudioLens[path]

\* start of run i of the recording (the end of the last run for i = Len + 1)
RunStart(runs, i) == SumDur(SubSeq(runs, 1, i - 1))

\* a set of disjoint ranges as a sequence in time order
InTimeOrder(ranges) ==
    [k \in 1..Cardinality(ranges) |->
        CHOOSE r \in ranges : Cardinality({q \in ranges : q[1] < r[1]}) = k - 1]

\* pydub detect_silence: the maximal stretches at or below silence_thresh that
\* last at least min_silence_len
SilentRanges(runs, min_silence_len, silence_thresh) ==
    LET n == Len(runs)
        quiet == {i \in 1..n : runs[i].dbfs <= silence_thresh}
        stretches == {p \in (1..n) \X (1..n) :
                        /\ p[1] <= p[2]
                        /\ \A k \in p[1]..p[2] : k \in quiet
                        /\ (p[1] - 1) \notin quiet
                        /\ (p[2] + 1) \notin quiet
                        /\ RunStart(runs, p[2] + 1) - RunStart(runs, p[1]) >= min_silence_len}
    IN InTimeOrder({<<RunStart(runs, p[1]), RunStart(runs, p[2] + 1)>> : p \in stretches})

\* pydub detect_nonsilent: the complement of the silent ranges in [0, len]
Complement(silent, len_seg) ==
    LET k == Len(silent)
    IN [j \in 1..k |-> <<IF j = 1 THEN 0 ELSE silent[j - 1][2], silent[j][1]>>]
       \o (IF silent[k][2] # len_seg THEN <<(<<silent[k][2], len_seg>>)>> ELSE <<>>)

NonSilent(silent, len_seg) ==
    IF silent = <<>> THEN <<(<<0, len_seg>>)>>
    ELSE IF silent[1] = <<0, len_seg>> THEN <<>>
    ELSE IF Complement(silent, len_seg)[1] = <<0, 0>> THEN Tail(Complement(silent, len_seg))
    ELSE Complement(silent, len_seg)

\* the recordings, and the detection parameters the runs below can resolve
AudioPaths == {"rows/row_g.mp3", "rows/row_d.mp3", "columns/col_a.mp3", "rows/row_ae.mp3", "rows/row_n.mp3", "rows/row_k.mp3"}

MinSilences == {150, 200}

Thresholds == {-40, -50}

\* detect_nonsilent of every recording under every parameter pair, computed once
Detected ==
    [path \in AudioPaths |-> [min_silence_len \in MinSilences |-> [silence_thresh \in Thresholds |->
        NonSilent(SilentRanges(AudioRuns(path), min_silence_len, silence_thresh),
                  SumDur(AudioRuns(path)))]]]

detect_syllable_boundaries(path, min_silence_len, silence_thresh) ==
    Detected[path][min_silence_len][silence_thresh]

(***************************************************************************)
(* segment_audio_file                                                      *)
(***************************************************************************)
DEFAULT_AUDIO_OVERRIDES ==
    ("row_d.mp3" :> [skip_first |-> 1]) @@ ("row_k.mp3" :> [min_silence |-> 150])

SegmentTimestamp(start_ms, end_ms, padded_start_ms, padded_end_ms) ==
    [start_ms |-> start_ms, end_ms |-> end_ms,
     padded_start_ms |-> padded_start_ms, padded_end_ms |-> padded_end_ms]

\* audio[padded_start:padded_end] exported as a clip: the window and its source
Clip(path, padded_start, padded_end) ==
    [source |-> path, from_ms |-> padded_start, to_ms |-> padded_end]

\* boundaries after skip_first, skip_last and use_indices, in the code's order
ApplyOverride(override, detected) ==
    LET after_first == IF Has(override, "skip_first")
                       THEN DropFirst(detected, override["skip_first"])
                       ELSE detected
        after_last == IF Has(override, "skip_last") /\ override["skip_last"] > 0
                      THEN DropLast(after_first, override["skip_last"])
                      ELSE after_first
        indices == IF Has(override, "use_indices") THEN override["use_indices"] ELSE <<>>
        kept == SelectSeq(indices, LAMBDA i : i < Len(after_last))
    IN IF Has(override, "use_indices")
       THEN [j \in 1..Len(kept) |-> after_last[kept[j] + 1]]
       ELSE after_last

SkippedSegments(override) ==
    Get(override, "skip_first", 0) + Get(override, "skip_last", 0)

\* effective_params of the result
EffectiveParams(override, min_silence_len, silence_thresh, padding_ms) ==
    Update(Update([min_silence |-> Get(override, "min_silence", min_silence_len),
                   threshold |-> Get(override, "threshold", silence_thresh),
                   padding |-> Get(override, "padding", padding_ms)],
                  IF Has(override, "skip_first")
                  THEN [skip_first |-> override["skip_first"]] ELSE EmptyDict),
           IF Has(override, "skip_last")
           THEN [skip_last |-> override["skip_last"]] ELSE EmptyDict)

\* a variant that compares the syllables with the count before the skips
MatchSegmentsBeforeSkips(audio_path, syllables, boundaries, override, effective_params) ==
    LET effective_padding == effective_params["padding"]
        saved == Min(Len(boundaries), Len(syllables))
        padded_start(i) == Max(0, boundaries[i][1] - effective_padding)
        padded_end(i) == Min(AudioLen(audio_path), boundaries[i][2] + effective_padding)
        keys == {romanize_syllable(syllables[i]) : i \in 1..saved}
        at(k) == CHOOSE i \in 1..saved :
                    /\ romanize_syllable(syllables[i]) = k
                    /\ \A j \in 1..saved : romanize_syllable(syllables[j]) = k => j <= i
    IN [source_file |-> audio_path,
        syllables |-> syllables,
        segments_found |-> Len(boundaries) + SkippedSegments(override),
        segments_saved |-> saved,
        output_files |-> [i \in 1..saved |-> romanize_syllable(syllables[i])],
        mismatch |-> Len(boundaries) + SkippedSegments(override) # Len(syllables),
        skipped_segments |-> SkippedSegments(override),
        effective_params |-> effective_params,
        timestamps |-> [k \in keys |->
            SegmentTimestamp(boundaries[at(k)][1], boundaries[at(k)][2],
                             padded_start(at(k)), padded_end(at(k)))],
        exports |-> [k \in keys |->
            Clip(audio_path, padded_start(at(k)), padded_end(at(k)))]]

\* the matching loop: boundaries paired with syllables in order, a clip
\* exported and a timestamp stored under each syllable's key
MatchSegments(audio_path, syllables, boundaries, override, effective_params) ==
    LET effective_padding == effective_params["padding"]
        skipped_segments == SkippedSegments(override)
        saved == Min(Len(boundaries), Len(syllables))
        padded_start(i) == Max(0, boundaries[i][1] - effective_padding)
        padded_end(i) == Min(AudioLen(audio_path), boundaries[i][2] + effective_padding)
        keys == {romanize_syllable(syllables[i]) : i \in 1..saved}
        \* a later syllable with the same key overwrites the earlier one
        at(k) == CHOOSE i \in 1..saved :
                    /\ romanize_syllable(syllables[i]) = k
                    /\ \A j \in 1..saved : romanize_syllable(syllables[j]) = k => j <= i
    IN [source_file |-> audio_path,
        syllables |-> syllables,
        segments_found |-> Len(boundaries) + skipped_segments,
        segments_saved |-> saved,
        output_files |-> [i \in 1..saved |-> romanize_syllable(syllables[i])],
        mismatch |-> Len(boundaries) # Len(syllables),
        skipped_segments |-> skipped_segments,
        effective_params |-> effective_params,
        timestamps |-> [k \in keys |->
            SegmentTimestamp(boundaries[at(k)][1], boundaries[at(k)][2],
                             padded_start(at(k)), padded_end(at(k)))],
        exports |-> [k \in keys |->
            Clip(audio_path, padded_start(at(k)), padded_end(at(k)))]]

\* detection with the effective parameters, then the structural directives
EffectiveBoundaries(audio_path, override, effective_params) ==
    ApplyOverride(override,
                  detect_syllable_boundaries(audio_path, effective_params["min_silence"],
                                             effective_params["threshold"]))

\* segmentation once the override of the source is resolved
SegmentWithOverride(audio_path, syllables, override, min_silence_len, silence_thresh, padding_ms) ==
    CHOOSE result \in UNION
        {{MatchSegments(audio_path, syllables, boundaries, override, eff) :
            boundaries \in {EffectiveBoundaries(audio_path, override, eff)}} :
         eff \in {EffectiveParams(override, min_silence_len, silence_thresh, padding_ms)}} : TRUE

\* a variant in which the default table overrides the manifest's parameters
segment_audio_file_table_first(audio_path, syllables, min_silence_len, silence_thresh, padding_ms, manifest_params) ==
    CHOOSE result \in
        {SegmentWithOverride(audio_path, syllables, override, min_silence_len,
                             silence_thresh, padding_ms) :
            override \in {Update(manifest_params,
                                 Get(DEFAULT_AUDIO_OVERRIDES, Basename(audio_path), EmptyDict))}} : TRUE

\* The result of segmenting one (decodable) source; exports are the clip files
\* it wrote, by key.
segment_audio_file(audio_path, syllables, min_silence_len, silence_thresh, padding_ms, manifest_params) ==
    CHOOSE result \in
        {SegmentWithOverride(audio_path, syllables, override, min_silence_len,
                             silence_thresh, padding_ms) :
            override \in {Update(Get(DEFAULT_AUDIO_OVERRIDES, Basename(audio_path), EmptyDict),
                                 manifest_params)}} : TRUE

(***************************************************************************)
(* update_manifest_with_segments                                           *)
(***************************************************************************)
ClipPath(romanization) == "syllables/" \o romanization \o ".mp3"

\* a variant that writes the new baseline and forgets the manual override
NewSegmentInfoNoManual(info, romanization, ts) ==
    [file |-> "syllables/" \o romanization \o ".mp3",
     baseline |-> [start_ms |-> ts.start_ms, end_ms |-> ts.end_ms,
                   padded_start_ms |-> ts.padded_start_ms,
                   padded_end_ms |-> ts.padded_end_ms]]

\* the "segment" value written for a syllable that was segmented in this run
NewSegmentInfo(info, romanization, ts) ==
    LET existing_segment == Get(info, "segment", None)
        segment_info == [file |-> ClipPath(romanization),
                         baseline |-> [start_ms |-> ts.start_ms,
                                       end_ms |-> ts.end_ms,
                                       padded_start_ms |-> ts.padded_start_ms,
                                       padded_end_ms |-> ts.padded_end_ms]]
    IN IF IsDict(existing_segment) /\ Has(existing_segment, "manual")
       THEN Update(segment_info, [manual |-> existing_segment["manual"]])
       ELSE segment_info

\* a variant that rewrites the segment of every syllable whose clip is on
\* disk, whether this run segmented it or not
UpdatedInfoEvery(info, files, all_timestamps) ==
    LET romanization == Get(info, "romanization", "")
    IN IF romanization \notin files
       THEN info
       ELSE IF Has(all_timestamps, romanization)
            THEN Update(info, [segment |->
                        NewSegmentInfo(info, romanization, all_timestamps[romanization])])
            ELSE Update(info, [segment |-> [file |-> ClipPath(romanization)]])

\* a variant that rebuilds the segment of a syllable of this run from the new
\* timestamps alone
UpdatedInfoRebuilt(info, files, all_timestamps) ==
    LET romanization == Get(info, "romanization", "")
    IN IF Has(all_timestamps, romanization) /\ romanization \in files
       THEN Update(info, [segment |->
                   [file |-> ClipPath(romanization),
                    baseline |-> all_timestamps[romanization]]])
       ELSE info

\* the syllable-table entry after the reconciliation pass
UpdatedInfo(info, files, all_timestamps) ==
    LET romanization == Get(info, "romanization", "")
    IN IF ~Has(all_timestamps, romanization)
       THEN info
       ELSE IF romanization \in files
            THEN Update(info, [segment |->
                        NewSegmentInfo(info, romanization, all_timestamps[romanization])])
            ELSE info

\* a variant that, given no timestamps, records the clip found on disk for
\* each syllable
update_manifest_with_files(m, files, all_timestamps) ==
    LET timestamps == IF all_timestamps = None THEN EmptyDict ELSE all_timestamps
        entry(info) ==
            IF timestamps = EmptyDict /\ Get(info, "romanization", "") \in files
            THEN Update(info, [segment |-> [file |-> ClipPath(Get(info, "romanization", ""))]])
            ELSE UpdatedInfo(info, files, timestamps)
    IN Update(m, [syllable_table |->
            [s \in DOMAIN m["syllable_table"] |-> entry(m["syllable_table"][s])]])

\* the manifest the function writes; files are the keys of the clips present
\* in syllables_dir
update_manifest_with_segments(m, files, all_timestamps) ==
    LET timestamps == IF all_timestamps = None THEN EmptyDict ELSE all_timestamps
    IN IF Has(m, "syllable_table")
       THEN Update(m, [syllable_table |->
               [s \in DOMAIN m["syllable_table"] |->
                   UpdatedInfo(m["syllable_table"][s], files, timestamps)]])
       ELSE m

(***************************************************************************)
(* segment_lesson1 and segment_single_row                                  *)
(***************************************************************************)
\* segment_audio_file for source i of the batch, with the parameters the loop
\* body resolves for it
SourceResult(infos, i, min_silence_len, silence_thresh, padding_ms, reset_params) ==
    segment_audio_file(infos[i]["file"], infos[i]["syllables"], min_silence_len,
                       silence_thresh, padding_ms,
                       IF reset_params THEN EmptyDict
                       ELSE Get(infos[i], "segment_params", EmptyDict))

\* a variant in which the first source that has a key keeps it
BatchOutcomeFirstWins(infos, files, results) ==
    LET n == Len(infos)
        corrupt == {i \in 1..n : files[infos[i]["file"]] = "corrupt"}
        done == {i \in 1..n : /\ files[infos[i]["file"]] = "ok"
                              /\ \A j \in corrupt : i < j}
        winner(k, field) == CHOOSE i \in done :
                                /\ k \in DOMAIN results[i][field]
                                /\ \A j \in done : k \in DOMAIN results[j][field] => i <= j
        merged(field) == [k \in UNION {DOMAIN results[i][field] : i \in done} |->
                            results[winner(k, field)][field][k]]
    IN [raised |-> corrupt # {},
        infos |-> [i \in 1..n |->
                    IF i \in done
                    THEN Update(infos[i], [segment_params |-> results[i].effective_params])
                    ELSE infos[i]],
        all_timestamps |-> merged("timestamps"),
        exports |-> merged("exports")]

\* The two loops of segment_lesson1 over infos (the columns, then the rows).
\* A source whose file is missing is skipped; AudioSegment.from_mp3 raises
\* on a file it cannot decode, which ends the run there.  done are the sources
\* segmented before the run ended, results[i] the result of source i.
BatchOutcome(infos, files, results) ==
    LET n == Len(infos)
        corrupt == {i \in 1..n : files[infos[i]["file"]] = "corrupt"}
        done == {i \in 1..n : /\ files[infos[i]["file"]] = "ok"
                              /\ \A j \in corrupt : i < j}
        \* dict.update in loop order: the last source that has the key wins
        winner(k, field) == CHOOSE i \in done :
                                /\ k \in DOMAIN results[i][field]
                                /\ \A j \in done : k \in DOMAIN results[j][field] => j <= i
        merged(field) == [k \in UNION {DOMAIN results[i][field] : i \in done} |->
                            results[winner(k, field)][field][k]]
    IN [raised |-> corrupt # {},
        infos |-> [i \in 1..n |->
                    IF i \in done
                    THEN Update(infos[i], [segment_params |-> results[i].effective_params])
                    ELSE infos[i]],
        all_timestamps |-> merged("timestamps"),
        exports |-> merged("exports")]

\* the manifest after the loops, before the reconciliation pass
WithSegmentParams(m, infos) ==
    LET ncols == Len(Get(m, "columns", <<>>))
    IN Update(Update(m, IF Has(m, "columns")
                        THEN [columns |-> SubSeq(infos, 1, ncols)] ELSE EmptyDict),
              IF Has(m, "rows")
              THEN [rows |-> SubSeq(infos, ncols + 1, Len(infos))] ELSE EmptyDict)

FinishBatch(m, disk, batch) ==
    LET new_clips == Update(disk, batch.exports)
    IN IF batch.raised
       THEN [ret |-> "raised", manifest |-> m, clips |-> new_clips]
       ELSE [ret |-> "results",
             manifest |-> update_manifest_with_segments(WithSegmentParams(m, batch.infos),
                                                        DOMAIN new_clips,
                                                        batch.all_timestamps),
             clips |-> new_clips]

\* [ret, manifest, clips] after segment_lesson1
segment_lesson1(m, disk, files, min_silence_len, silence_thresh, padding_ms, reset_params) ==
    CHOOSE out \in UNION
        {{FinishBatch(m, disk, batch) :
            batch \in {BatchOutcome(infos, files,
                [i \in 1..Len(infos) |->
                    IF files[infos[i]["file"]] = "ok"
                    THEN SourceResult(infos, i, min_silence_len, silence_thresh,
                                      padding_ms, reset_params)
                    ELSE EmptyDict])}} :
         infos \in {Get(m, "columns", <<>>) \o Get(m, "rows", <<>>)}} : TRUE

\* a variant that settles for the first row when it has any
FindRowFirst(rows, row_romanization) ==
    IF Len(rows) > 0 THEN 1 ELSE 0

\* index of the first row whose romanization is row_romanization, 0 if none
FindRow(rows, row_romanization) ==
    LET hits == {i \in 1..Len(rows) : Get(rows[i], "romanization", "") = row_romanization}
    IN IF hits = {} THEN 0 ELSE CHOOSE i \in hits : \A j \in hits : i <= j

BuildCustomParams(min_silence, threshold, padding, skip_first, skip_last) ==
    Update(Update([min_silence |-> min_silence, threshold |-> threshold, padding |-> padding],
                  IF skip_first > 0 THEN [skip_first |-> skip_first] ELSE EmptyDict),
           IF skip_last > 0 THEN [skip_last |-> skip_last] ELSE EmptyDict)

\* [ret, manifest, clips] after segment_single_row
segment_single_row(m, disk, files, row_romanization, min_silence, threshold, padding, skip_first, skip_last) ==
    LET rows == Get(m, "rows", <<>>)
        t == FindRow(rows, row_romanization)
        target_row == rows[t]
        custom_params == BuildCustomParams(min_silence, threshold, padding, skip_first,
                                           skip_last)
        result == segment_audio_file(target_row["file"], target_row["syllables"],
                                     200, -40, 50, custom_params)
        with_params == Update(m, [rows |-> [rows EXCEPT ![t] =
                            Update(target_row, [segment_params |-> result.effective_params])]])
        new_clips == Update(disk, result.exports)
    IN IF t = 0 THEN [ret |-> "None", manifest |-> m, clips |-> disk]
       ELSE IF files[target_row["file"]] = "missing"
       THEN [ret |-> "None", manifest |-> m, clips |-> disk]
       ELSE IF files[target_row["file"]] = "corrupt"
       THEN [ret |-> "raised", manifest |-> m, clips |-> disk]
       ELSE [ret |-> "result",
             manifest |-> update_manifest_with_segments(with_params, DOMAIN new_clips,
                                                        result.timestamps),
             clips |-> new_clips]

(***************************************************************************)
(* apply_manual_segment and reset_manual_segment                           *)
(***************************************************************************)
\* index of the first row that lists the syllable, 0 if none
FindSourceRow(rows, syllable) ==
    LET hits == {i \in 1..Len(rows) : syllable \in Range(Get(rows[i], "syllables", <<>>))}
    IN IF hits = {} THEN 0 ELSE CHOOSE i \in hits : \A j \in hits : i <= j

\* a variant that keeps only the file of the existing segment
ManualSegmentInfoOnly(syllable_info, romanization, start_ms, end_ms, padded_start, padded_end) ==
    [file |-> ClipPath(romanization),
     manual |-> [start_ms |-> start_ms, end_ms |-> end_ms,
                 padded_start_ms |-> padded_start, padded_end_ms |-> padded_end]]

\* a variant that does not supply the file of a segment that has none
ManualSegmentInfoNoFile(syllable_info, romanization, start_ms, end_ms, padded_start, padded_end) ==
    LET segment_info == Get(syllable_info, "segment", None)
    IN Update(IF IsDict(segment_info) THEN segment_info ELSE EmptyDict,
              [manual |-> [start_ms |-> start_ms, end_ms |-> end_ms,
                           padded_start_ms |-> padded_start,
                           padded_end_ms |-> padded_end]])

\* the "segment" value apply_manual_segment writes
ManualSegmentInfo(syllable_info, romanization, start_ms, end_ms, padded_start, padded_end) ==
    LET segment_info == Get(syllable_info, "segment", None)
        base == IF ~IsDict(segment_info) \/ segment_info = EmptyDict
                THEN [file |-> ClipPath(romanization)]
                ELSE IF ~Has(segment_info, "file")
                THEN Update(segment_info, [file |-> ClipPath(romanization)])
                ELSE segment_info
    IN Update(base, [manual |-> [start_ms |-> start_ms, end_ms |-> end_ms,
                                 padded_start_ms |-> padded_start,
                                 padded_end_ms |-> padded_end]])

\* a variant that pads without keeping the window inside the audio
apply_manual_segment_unclamped(m, disk, files, syllable, start_ms, end_ms, padding_ms) ==
    LET syllable_table == Get(m, "syllable_table", EmptyDict)
        syllable_info == syllable_table[syllable]
        romanization == Get(syllable_info, "romanization", "")
        rows == Get(m, "rows", <<>>)
        r == FindSourceRow(rows, syllable)
        unchanged == [manifest |-> m, clips |-> disk]
    IN IF ~Has(syllable_table, syllable) THEN Update(unchanged, [ret |-> "False"])
       ELSE IF r = 0 THEN Update(unchanged, [ret |-> "False"])
       ELSE IF files[rows[r]["file"]] = "missing" THEN Update(unchanged, [ret |-> "False"])
       ELSE IF files[rows[r]["file"]] = "corrupt" THEN Update(unchanged, [ret |-> "raised"])
       ELSE [ret |-> "True",
             manifest |-> Update(m, [syllable_table |-> Update(syllable_table,
                (syllable :> Update(syllable_info, [segment |->
                    ManualSegmentInfo(syllable_info, romanization, start_ms, end_ms,
                                      start_ms - padding_ms, end_ms + padding_ms)])))]),
             clips |-> Update(disk,
                (romanization :> Clip(rows[r]["file"], start_ms - padding_ms,
                                      end_ms + padding_ms)))]

\* [ret, manifest, clips] after apply_manual_segment
\* a variant that records the adjustment without exporting the clip
apply_manual_segment_unexported(m, disk, files, syllable, start_ms, end_ms, padding_ms) ==
    LET syllable_table == Get(m, "syllable_table", EmptyDict)
        syllable_info == syllable_table[syllable]
        romanization == Get(syllable_info, "romanization", "")
        rows == Get(m, "rows", <<>>)
        r == FindSourceRow(rows, syllable)
        audio_path == rows[r]["file"]
        padded_start == Max(0, start_ms - padding_ms)
        padded_end == Min(AudioLen(audio_path), end_ms + padding_ms)
        unchanged == [manifest |-> m, clips |-> disk]
    IN IF ~Has(syllable_table, syllable) THEN Update(unchanged, [ret |-> "False"])
       ELSE IF r = 0 THEN Update(unchanged, [ret |-> "False"])
       ELSE IF files[audio_path] = "missing" THEN Update(unchanged, [ret |-> "False"])
       ELSE IF files[audio_path] = "corrupt" THEN Update(unchanged, [ret |-> "raised"])
       ELSE [ret |-> "True",
             manifest |-> Update(m, [syllable_table |-> Update(syllable_table,
                (syllable :> Update(syllable_info, [segment |->
                    ManualSegmentInfo(syllable_info, romanization, start_ms, end_ms,
                                      padded_start, padded_end)])))]),
             clips |-> disk]

apply_manual_segment(m, disk, files, syllable, start_ms, end_ms, padding_ms) ==
    LET syllable_table == Get(m, "syllable_table", EmptyDict)
        syllable_info == syllable_table[syllable]
        romanization == Get(syllable_info, "romanization", "")
        rows == Get(m, "rows", <<>>)
        r == FindSourceRow(rows, syllable)
        audio_path == rows[r]["file"]
        padded_start == Max(0, start_ms - padding_ms)
        padded_end == Min(AudioLen(audio_path), end_ms + padding_ms)
        unchanged == [manifest |-> m, clips |-> disk]
    IN IF ~Has(syllable_table, syllable) THEN Update(unchanged, [ret |-> "False"])
       ELSE IF r = 0 THEN Update(unchanged, [ret |-> "False"])
       ELSE IF files[audio_path] = "missing" THEN Update(unchanged, [ret |-> "False"])
       ELSE IF files[audio_path] = "corrupt" THEN Update(unchanged, [ret |-> "raised"])
       ELSE [ret |-> "True",
             manifest |-> Update(m, [syllable_table |-> Update(syllable_table,
                (syllable :> Update(syllable_info, [segment |->
                    ManualSegmentInfo(syllable_info, romanization, start_ms, end_ms,
                                      padded_start, padded_end)])))]),
             clips |-> Update(disk,
                (romanization :> Clip(audio_path, padded_start, padded_end)))]

\* a variant that deletes the manual of every syllable of the table
WithoutManualAnywhere(m, syllable) ==
    Update(m, [syllable_table |->
        [s \in DOMAIN m["syllable_table"] |->
            IF Has(m["syllable_table"][s], "segment")
            THEN Update(m["syllable_table"][s],
                        [segment |-> Del(m["syllable_table"][s]["segment"], "manual")])
            ELSE m["syllable_table"][s]]])

\* a variant that deletes the baseline and keeps the manual override
WithoutBaseline(m, syllable) ==
    LET syllable_table == m["syllable_table"]
        syllable_info == syllable_table[syllable]
    IN Update(m, [syllable_table |-> Update(syllable_table,
            (syllable :> Update(syllable_info, [segment |->
                Del(syllable_info["segment"], "baseline")])))])

\* m with the "manual" of the syllable's segment deleted
WithoutManual(m, syllable) ==
    LET syllable_table == m["syllable_table"]
        syllable_info == syllable_table[syllable]
    IN Update(m, [syllable_table |-> Update(syllable_table,
            (syllable :> Update(syllable_info, [segment |->
                Del(syllable_info["segment"], "manual")])))])

\* a variant that cuts the clip at the unpadded baseline
RestoreBaselineUnpadded(m, disk, syllable, audio_path) ==
    LET syllable_info == m["syllable_table"][syllable]
        baseline == syllable_info["segment"]["baseline"]
    IN [ret |-> "True",
        manifest |-> WithoutManual(m, syllable),
        clips |-> Update(disk,
            (Get(syllable_info, "romanization", "") :>
                Clip(audio_path, baseline["start_ms"], baseline["end_ms"])))]

\* the successful end of reset_manual_segment: the clip is cut again at the
\* padded baseline and the manual override is deleted
RestoreBaseline(m, disk, syllable, audio_path) ==
    LET syllable_info == m["syllable_table"][syllable]
        baseline == syllable_info["segment"]["baseline"]
    IN [ret |-> "True",
        manifest |-> WithoutManual(m, syllable),
        clips |-> Update(disk,
            (Get(syllable_info, "romanization", "") :>
                Clip(audio_path, baseline["padded_start_ms"],
                     baseline["padded_end_ms"])))]

\* a variant that, finding no baseline, deletes the manual override all the same
reset_manual_segment_any(m, disk, files, syllable) ==
    LET syllable_table == Get(m, "syllable_table", EmptyDict)
        segment_info == Get(syllable_table[syllable], "segment", None)
        rows == Get(m, "rows", <<>>)
        r == FindSourceRow(rows, syllable)
        unchanged == [manifest |-> m, clips |-> disk]
    IN IF ~Has(syllable_table, syllable) THEN Update(unchanged, [ret |-> "False"])
       ELSE IF ~IsDict(segment_info) THEN Update(unchanged, [ret |-> "False"])
       ELSE IF ~Has(segment_info, "baseline")
       THEN [ret |-> "True", manifest |-> WithoutManual(m, syllable), clips |-> disk]
       ELSE IF r = 0 THEN Update(unchanged, [ret |-> "False"])
       ELSE IF files[rows[r]["file"]] = "missing" THEN Update(unchanged, [ret |-> "False"])
       ELSE IF files[rows[r]["file"]] = "corrupt" THEN Update(unchanged, [ret |-> "raised"])
       ELSE RestoreBaseline(m, disk, syllable, rows[r]["file"])

\* a variant that refuses a syllable that has no manual
reset_manual_segment_strict(m, disk, files, syllable) ==
    LET syllable_table == Get(m, "syllable_table", EmptyDict)
        segment_info == Get(syllable_table[syllable], "segment", None)
        rows == Get(m, "rows", <<>>)
        r == FindSourceRow(rows, syllable)
        unchanged == [manifest |-> m, clips |-> disk]
    IN IF ~Has(syllable_table, syllable) THEN Update(unchanged, [ret |-> "False"])
       ELSE IF ~IsDict(segment_info) THEN Update(unchanged, [ret |-> "False"])
       ELSE IF ~Has(segment_info, "baseline") THEN Update(unchanged, [ret |-> "False"])
       ELSE IF ~Has(segment_info, "manual") THEN Update(unchanged, [ret |-> "False"])
       ELSE IF r = 0 THEN Update(unchanged, [ret |-> "False"])
       ELSE IF files[rows[r]["file"]] = "missing" THEN Update(unchanged, [ret |-> "False"])
       ELSE IF files[rows[r]["file"]] = "corrupt" THEN Update(unchanged, [ret |-> "raised"])
       ELSE RestoreBaseline(m, disk, syllable, rows[r]["file"])

\* [ret, manifest, clips] after reset_manual_segment
reset_manual_segment(m, disk, files, syllable) ==
    LET syllable_table == Get(m, "syllable_table", EmptyDict)
        segment_info == Get(syllable_table[syllable], "segment", None)
        rows == Get(m, "rows", <<>>)
        r == FindSourceRow(rows, syllable)
        unchanged == [manifest |-> m, clips |-> disk]
    IN IF ~Has(syllable_table, syllable) THEN Update(unchanged, [ret |-> "False"])
       ELSE IF ~IsDict(segment_info) THEN Update(unchanged, [ret |-> "False"])
       ELSE IF ~Has(segment_info, "baseline") THEN Update(unchanged, [ret |-> "False"])
       ELSE IF r = 0 THEN Update(unchanged, [ret |-> "False"])
       ELSE IF files[rows[r]["file"]] = "missing" THEN Update(unchanged, [ret |-> "False"])
       ELSE IF files[rows[r]["file"]] = "corrupt" THEN Update(unchanged, [ret |-> "raised"])
       ELSE RestoreBaseline(m, disk, syllable, rows[r]["file"])

(***************************************************************************)
(* The manifests the scrapers create                                       *)
(***************************************************************************)
\* a two-by-two corner of the lesson 1 pronunciation table
VOWELS_ORDER == <<"A", "EO">>

CONSONANTS_ORDER == <<"TIKEUT", "KIYEOK">>

\* the characters whose anchors link an mp3 on the lesson 1 page, in page order
Lesson1Anchors == <<"A", "TIKEUT", "KIYEOK">>

\* lesson1.parse_pronunciation_table: the AudioFile of one anchor
AudioFile(char) ==
    IF char \in Range(VOWELS_ORDER)
    THEN [character |-> char, audio_type |-> "column", romanization |-> ROMANIZATION[char],
          filename |-> "col_" \o ROMANIZATION[char] \o ".mp3",
          syllables |-> [i \in 1..Len(CONSONANTS_ORDER) |->
                            compose_syllable(CONSONANTS_ORDER[i], char)]]
    ELSE [character |-> char, audio_type |-> "row", romanization |-> ROMANIZATION[char],
          filename |-> "row_" \o ROMANIZATION[char] \o ".mp3",
          syllables |-> [i \in 1..Len(VOWELS_ORDER) |->
                            compose_syllable(char, VOWELS_ORDER[i])]]

parse_pronunciation_table == [i \in 1..Len(Lesson1Anchors) |-> AudioFile(Lesson1Anchors[i])]

\* the entry create_manifest writes for a downloaded audio file
SourceEntry(af) ==
    [char |-> af.character, file |-> af.audio_type \o "s/" \o af.filename,
     romanization |-> af.romanization, syllables |-> af.syllables]

\* lesson1.create_manifest without an existing manifest
lesson1_create_manifest(audio_files, downloaded) ==
    LET got == SelectSeq(audio_files, LAMBDA af : af.character \in downloaded)
        columns == SelectSeq(got, LAMBDA af : af.audio_type = "column")
        rows == SelectSeq(got, LAMBDA af : af.audio_type # "column")
        table == {<<c, v>> : c \in Range(CONSONANTS_ORDER), v \in Range(VOWELS_ORDER)}
        entry(c, v) == [consonant |-> c, vowel |-> v,
                        romanization |-> ROMANIZATION[c] \o ROMANIZATION[v],
                        segment_file |-> None]
    IN [columns |-> [i \in 1..Len(columns) |-> SourceEntry(columns[i])],
        rows |-> [i \in 1..Len(rows) |-> SourceEntry(rows[i])],
        syllable_table |->
            [s \in {compose_syllable(cv[1], cv[2]) : cv \in table} |->
                LET cv == CHOOSE x \in table : compose_syllable(x[1], x[2]) = s
                IN entry(cv[1], cv[2])]]

\* one vowel row of lesson3.LESSON3_VOWELS, cut to two of its syllables
LESSON3_VOWELS_ORDER == <<"AE">>

LESSON3_VOWELS ==
    [AE |-> [romanization |-> "ae", syllables |-> <<44060, 47000>>]]

\* lesson3.create_manifest without an existing manifest
lesson3_create_manifest(downloaded) ==
    LET got == SelectSeq(LESSON3_VOWELS_ORDER, LAMBDA v : v \in downloaded)
        all == UNION {Range(LESSON3_VOWELS[v].syllables) : v \in Range(LESSON3_VOWELS_ORDER)}
        vowel_of(s) == CHOOSE v \in Range(LESSON3_VOWELS_ORDER) :
                            s \in Range(LESSON3_VOWELS[v].syllables)
    IN [rows |-> [i \in 1..Len(got) |->
                    [char |-> got[i],
                     file |-> "rows/row_" \o LESSON3_VOWELS[got[i]].romanization \o ".mp3",
                     romanization |-> LESSON3_VOWELS[got[i]].romanization,
                     syllables |-> LESSON3_VOWELS[got[i]].syllables]],
        syllable_table |->
            [s \in all |->
                [consonant |-> decompose_syllable(s)[1], vowel |-> vowel_of(s),
                 romanization |->
                    lesson3_romanize_syllable(s, LESSON3_VOWELS[vowel_of(s)].romanization),
                 segment_file |-> None]]]

\* the manifests a scrape leaves: lesson 1 with every file downloaded or with
\* the TIKEUT row failed, and lesson 3
ScrapedManifests ==
    {lesson1_create_manifest(parse_pronunciation_table, {"A", "TIKEUT", "KIYEOK"}),
     lesson1_create_manifest(parse_pronunciation_table, {"A", "KIYEOK"}),
     lesson3_create_manifest({"AE"})}

Sources(m) == Get(m, "columns", <<>>) \o Get(m, "rows", <<>>)

SourceFiles(m) == {Sources(m)[i]["file"] : i \in 1..Len(Sources(m))}

RowFiles(m) == {Get(m, "rows", <<>>)[i]["file"] : i \in 1..Len(Get(m, "rows", <<>>))}

(***************************************************************************)
(* State machine                                                           *)
(***************************************************************************)
\* operations in one run of the model
MaxOps == 3

\* a code point that is in no syllable table
UnknownSyllables == {55176}

\* (min_silence_len, silence_thresh, padding_ms, reset_params) of a batch
BatchInputs == {<<200, -40, 50, FALSE>>, <<150, -50, 75, TRUE>>}

\* (min_silence, threshold, padding, skip_first, skip_last) of a single-row run
SingleRowInputs == {<<200, -40, 50, 0, 0>>, <<150, -40, 75, 1, 0>>, <<200, -50, 50, 0, 1>>}

\* the row names a caller may pass: those of the manifest and one it lacks
RowNames(m) == {Get(m, "rows", <<>>)[i]["romanization"] : i \in 1..Len(Get(m, "rows", <<>>))} \cup {"zz"}

\* (start_ms, end_ms, padding_ms) of a manual adjustment
ManualInputs == {<<50, 350, 75>>, <<900, 1180, 50>>}

\* m with the "segment" of every syllable set as a hand-written manifest may
\* have it: null or {}
InitialSegments(m, shape) ==
    Update(m, [syllable_table |->
        [s \in DOMAIN m["syllable_table"] |->
            Update(m["syllable_table"][s],
                   [segment |-> IF shape = "null" THEN None ELSE EmptyDict])]])

\* the manifests a run may start from: what a scrape leaves (entries without
\* a "segment" key), and hand-written ones
InitialManifests ==
    ScrapedManifests
    \cup {InitialSegments(lesson3_create_manifest({"AE"}), shape) : shape \in {"null", "empty"}}

Syllables == DOMAIN manifest["syllable_table"]

Init ==
    /\ manifest \in InitialManifests
    /\ clips = EmptyDict
    /\ \E bad \in RowFiles(manifest) \cup {"none"}, how \in {"missing", "corrupt"} :
            audio = [f \in SourceFiles(manifest) |-> IF f = bad THEN how ELSE "ok"]
    /\ last = [op |-> "init", ret |-> "None"]
    /\ ops = 0
    /\ inflight = Idle

Effect(out, call) ==
    /\ manifest' = out.manifest
    /\ clips' = out.clips
    /\ last' = Update(call, [ret |-> out.ret])
    /\ ops' = ops + 1
    /\ UNCHANGED <<audio, inflight>>

SegmentLesson1 ==
    /\ ops < MaxOps
    /\ \E in \in BatchInputs :
        Effect(segment_lesson1(manifest, clips, audio, in[1], in[2], in[3], in[4]),
               [op |-> "segment_lesson1"])

SegmentSingleRow ==
    /\ ops < MaxOps
    /\ \E row \in RowNames(manifest), in \in SingleRowInputs :
        Effect(segment_single_row(manifest, clips, audio, row, in[1], in[2], in[3], in[4], in[5]),
               [op |-> "segment_single_row", row_romanization |-> row])

ApplyManual ==
    /\ ops < MaxOps
    /\ \E syllable \in Syllables \cup UnknownSyllables, in \in ManualInputs :
        Effect(apply_manual_segment(manifest, clips, audio, syllable, in[1], in[2], in[3]),
               [op |-> "apply_manual", syllable |-> syllable, start_ms |-> in[1],
                end_ms |-> in[2], padding_ms |-> in[3]])

ResetManual ==
    /\ ops < MaxOps
    /\ \E syllable \in Syllables \cup UnknownSyllables :
        Effect(reset_manual_segment(manifest, clips, audio, syllable),
               [op |-> "reset_manual", syllable |-> syllable])

Next == SegmentLesson1 \/ SegmentSingleRow \/ ApplyManual \/ ResetManual

Spec == Init /\ [][Next]_vars

(***************************************************************************)
(* update_manifest_with_segments called on its own, as its tests call it   *)
(***************************************************************************)
Romanizations(m) ==
    {Get(m["syllable_table"][s], "romanization", "") : s \in DOMAIN m["syllable_table"]}

\* the timestamp maps passed: none, an empty one, one key (of the table or
\* not), every key of the table
ReconcileInputs(m) ==
    {None, EmptyDict}
    \cup {[r \in K |-> SegmentTimestamp(10, 410, 0, 485)] :
            K \in {{r} : r \in Romanizations(m) \cup {"zz"}} \cup {Romanizations(m)}}

UpdateManifest ==
    /\ ops < MaxOps
    /\ \E all_timestamps \in ReconcileInputs(manifest) :
        Effect([ret |-> "None", clips |-> clips,
                manifest |-> update_manifest_with_segments(manifest, DOMAIN clips,
                                                           all_timestamps)],
               [op |-> "update_manifest_with_segments", all_timestamps |-> all_timestamps])

NextReconcile == Next \/ UpdateManifest

SpecReconcile == Init /\ [][NextReconcile]_vars

(***************************************************************************)
(* The manifest of the tests' create_base_manifest: rows only, every       *)
(* syllable segmented, no manual                                           *)
(***************************************************************************)
\* the baselines of create_base_manifest, by position in the row
SeedBaselines ==
    <<<<SegmentTimestamp(0, 400, 0, 475), SegmentTimestamp(500, 900, 425, 975)>>,
      <<SegmentTimestamp(0, 450, 0, 525), SegmentTimestamp(550, 950, 475, 1025)>>>>

\* row g holds the baselines of the fixture's first row, row d of its second
SeedBaseline(m, s) ==
    LET r == CHOOSE i \in 1..Len(m["rows"]) : s \in Range(m["rows"][i]["syllables"])
        p == IndexOf(m["rows"][r]["syllables"], s)
    IN SeedBaselines[IF m["rows"][r]["romanization"] = "g" THEN 1 ELSE 2][p]

create_base_manifest ==
    LET m == lesson1_create_manifest(parse_pronunciation_table, {"TIKEUT", "KIYEOK"})
    IN Update(m,
        [rows |-> [i \in 1..Len(m["rows"]) |->
                    Update(m["rows"][i],
                           [segment_params |->
                                [min_silence |-> 200, threshold |-> -40, padding |-> 75]])],
         syllable_table |->
            [s \in DOMAIN m["syllable_table"] |->
                Update(m["syllable_table"][s],
                       [segment |->
                            [file |-> ClipPath(m["syllable_table"][s]["romanization"]),
                             baseline |-> SeedBaseline(m, s)]])]])

\* the clip of every syllable of m, cut at its baseline (create_syllable_audio)
SeedClips(m) ==
    [k \in {m["syllable_table"][s]["romanization"] : s \in DOMAIN m["syllable_table"]} |->
        LET s == CHOOSE x \in DOMAIN m["syllable_table"] :
                    m["syllable_table"][x]["romanization"] = k
            r == CHOOSE i \in 1..Len(m["rows"]) : s \in Range(m["rows"][i]["syllables"])
            b == m["syllable_table"][s]["segment"]["baseline"]
        IN Clip(m["rows"][r]["file"], b.padded_start_ms, b.padded_end_ms)]

InitLifecycle ==
    /\ manifest = create_base_manifest
    /\ clips = SeedClips(manifest)
    /\ audio = [f \in SourceFiles(manifest) |-> "ok"]
    /\ last = [op |-> "init", ret |-> "None"]
    /\ ops = 0
    /\ inflight = Idle

\* the timestamp maps of a second segmentation of row g: its first syllable,
\* or both
LifecycleInputs ==
    {[ga |-> SegmentTimestamp(8, 398, 0, 473)],
     [ga |-> SegmentTimestamp(8, 398, 0, 473), geo |-> SegmentTimestamp(508, 898, 433, 973)]}

UpdateLifecycle ==
    /\ ops < MaxOps
    /\ \E all_timestamps \in LifecycleInputs :
        Effect([ret |-> "None", clips |-> clips,
                manifest |-> update_manifest_with_segments(manifest, DOMAIN clips,
                                                           all_timestamps)],
               [op |-> "update_manifest_with_segments", all_timestamps |-> all_timestamps])

NextLifecycle == ApplyManual \/ ResetManual \/ UpdateLifecycle

SpecLifecycle == InitLifecycle /\ [][NextLifecycle]_vars

(***************************************************************************)
(* segment_audio_file called on its own, into an empty output directory    *)
(***************************************************************************)
\* the expected syllables of a source: the first one to four of a row
SyllableLists ==
    {SubSeq(<<compose_syllable("KIYEOK", "A"), compose_syllable("KIYEOK", "EO"),
              compose_syllable("TIKEUT", "A"), compose_syllable("TIKEUT", "EO")>>, 1, n) :
        n \in 1..4}

\* (min_silence_len, silence_thresh, padding_ms) of the caller
BaseParams == {<<200, -40, 50>>, <<150, -50, 75>>}

\* the segment_params a manifest may hold for the source
ManifestParams ==
    {EmptyDict,
     [skip_first |-> 1],
     [skip_last |-> 1],
     [skip_first |-> 0, padding |-> 75],
     [min_silence |-> 150, threshold |-> -50]}

InitSegment ==
    /\ manifest = lesson1_create_manifest(parse_pronunciation_table, {"A", "TIKEUT", "KIYEOK"})
    /\ clips = EmptyDict
    /\ audio = [f \in AudioPaths |-> "ok"]
    /\ last = [op |-> "init", ret |-> "None"]
    /\ ops = 0
    /\ inflight = Idle

SegmentAudioFile ==
    /\ ops = 0
    /\ \E audio_path \in AudioPaths, syllables \in SyllableLists, in \in BaseParams,
          manifest_params \in ManifestParams :
        Effect([ret |-> "result", manifest |-> manifest,
                clips |-> Update(clips,
                    segment_audio_file(audio_path, syllables, in[1], in[2], in[3],
                                       manifest_params).exports)],
               [op |-> "segment_audio_file", audio_path |-> audio_path,
                syllables |-> syllables, min_silence_len |-> in[1],
                silence_thresh |-> in[2], padding_ms |-> in[3],
                manifest_params |-> manifest_params,
                result |-> segment_audio_file(audio_path, syllables, in[1], in[2], in[3],
                                              manifest_params)])

\* One pass of the loop body of segment_lesson1 over a source whose manifest
\* entry holds segment_params: the persisted parameters are handed to
\* segment_audio_file unless reset_params is set.
SegmentSource ==
    /\ ops = 0
    /\ \E audio_path \in AudioPaths, syllables \in SyllableLists, in \in BaseParams,
          segment_params \in ManifestParams, reset_params \in BOOLEAN :
        LET info == [file |-> audio_path, syllables |-> syllables,
                     segment_params |-> segment_params]
        IN Effect([ret |-> "result", manifest |-> manifest,
                   clips |-> Update(clips,
                       SourceResult(<<info>>, 1, in[1], in[2], in[3], reset_params).exports)],
                  [op |-> "segment_source", audio_path |-> audio_path,
                   syllables |-> syllables, min_silence_len |-> in[1],
                   silence_thresh |-> in[2], padding_ms |-> in[3],
                   manifest_params |-> segment_params, reset_params |-> reset_params,
                   result |-> SourceResult(<<info>>, 1, in[1], in[2], in[3], reset_params)])

NextSegment == SegmentAudioFile \/ SegmentSource

SpecSegment == InitSegment /\ [][NextSegment]_vars

\* the structural directives a manifest may hold for the source: skips up to
\* more than any recording has intervals, and index lists in and out of order
\* and beyond the intervals
DirectiveParams ==
    {Update(Update(first, last_), indices) :
        first \in {EmptyDict, [skip_first |-> 0], [skip_first |-> 1], [skip_first |-> 5]},
        last_ \in {EmptyDict, [skip_last |-> 1], [skip_last |-> 5]},
        indices \in {EmptyDict, [use_indices |-> <<0, 2>>], [use_indices |-> <<1, 0>>],
                     [use_indices |-> <<0, 7>>]}}

\* segment_audio_file on a source whose override carries structural directives
SegmentWithDirectives ==
    /\ ops = 0
    /\ \E audio_path \in AudioPaths, syllables \in SyllableLists,
          manifest_params \in DirectiveParams :
        Effect([ret |-> "result", manifest |-> manifest,
                clips |-> Update(clips,
                    segment_audio_file(audio_path, syllables, 200, -40, 50,
                                       manifest_params).exports)],
               [op |-> "segment_audio_file", audio_path |-> audio_path,
                syllables |-> syllables, min_silence_len |-> 200,
                silence_thresh |-> -40, padding_ms |-> 50,
                manifest_params |-> manifest_params,
                result |-> segment_audio_file(audio_path, syllables, 200, -40, 50,
                                              manifest_params)])

SpecDirectives == InitSegment /\ [][SegmentWithDirectives]_vars

(***************************************************************************)
(* Runs one after the other over a manifest whose rows may carry           *)
(* hand-written segment_params                                             *)
(***************************************************************************)
\* runs in a row
MaxRuns == 2

\* the segment_params a row may carry before the first run
HandParams ==
    {EmptyDict, [skip_last |-> 1], [skip_first |-> 0, padding |-> 75],
     [use_indices |-> <<1, 0>>]}

\* (min_silence_len, silence_thresh, padding_ms, reset_params) of a batch
RerunInputs == {<<200, -40, 50, FALSE>>, <<200, -40, 50, TRUE>>, <<150, -50, 75, FALSE>>}

InitRerun ==
    /\ \E hand \in [1..2 -> HandParams] :
        LET m == lesson1_create_manifest(parse_pronunciation_table, {"A", "TIKEUT", "KIYEOK"})
        IN manifest = Update(m, [rows |-> [i \in 1..Len(m["rows"]) |->
                IF hand[i] = EmptyDict THEN m["rows"][i]
                ELSE Update(m["rows"][i], [segment_params |-> hand[i]])]])
    /\ clips = EmptyDict
    /\ audio = [f \in SourceFiles(manifest) |-> "ok"]
    /\ last = [op |-> "init", ret |-> "None"]
    /\ ops = 0
    /\ inflight = Idle

RerunBatch ==
    /\ ops < MaxRuns
    /\ \E in \in RerunInputs :
        Effect(segment_lesson1(manifest, clips, audio, in[1], in[2], in[3], in[4]),
               [op |-> "segment_lesson1", min_silence_len |-> in[1],
                silence_thresh |-> in[2], padding_ms |-> in[3], reset_params |-> in[4]])

\* segment_single_row, whose base parameters are fixed in the code
RerunSingleRow ==
    /\ ops < MaxRuns
    /\ \E row \in RowNames(manifest), in \in SingleRowInputs :
        Effect(segment_single_row(manifest, clips, audio, row, in[1], in[2], in[3], in[4], in[5]),
               [op |-> "segment_single_row", row_romanization |-> row,
                min_silence_len |-> 200, silence_thresh |-> -40, padding_ms |-> 50,
                min_silence |-> in[1], threshold |-> in[2], padding |-> in[3],
                skip_first |-> in[4], skip_last |-> in[5]])

NextRerun == RerunBatch \/ RerunSingleRow

SpecRerun == InitRerun /\ [][NextRerun]_vars

(***************************************************************************)
(* Manual adjustments with any integers the caller may pass                *)
(***************************************************************************)
\* (start_ms, end_ms, padding_ms): in and out of the audio, in and out of
\* order, padding of either sign
WideManualInputs ==
    {<<start_ms, end_ms, padding_ms>> :
        start_ms \in {-20, 50, 400}, end_ms \in {300, 350, 2500}, padding_ms \in {-10, 0, 75}}

ApplyManualWide ==
    /\ ops < MaxRuns
    /\ \E syllable \in Syllables, in \in WideManualInputs :
        Effect(apply_manual_segment(manifest, clips, audio, syllable, in[1], in[2], in[3]),
               [op |-> "apply_manual", syllable |-> syllable, start_ms |-> in[1],
                end_ms |-> in[2], padding_ms |-> in[3]])

BatchDefault ==
    /\ ops < MaxRuns
    /\ Effect(segment_lesson1(manifest, clips, audio, 200, -40, 50, FALSE),
              [op |-> "segment_lesson1"])

NextWide == ApplyManualWide \/ BatchDefault

SpecWide == InitSegment /\ [][NextWide]_vars

(***************************************************************************)
(* Scraping again over an existing manifest                                *)
(***************************************************************************)
\* "Preserve segment_params from existing manifest": a new source entry takes
\* the segment_params of the existing entry of the same character
PreserveSegmentParams(entries, existing) ==
    [i \in 1..Len(entries) |->
        LET old == {j \in 1..Len(existing) :
                        /\ existing[j]["char"] = entries[i]["char"]
                        /\ Has(existing[j], "segment_params")}
        IN IF old = {} THEN entries[i]
           ELSE Update(entries[i],
                       [segment_params |-> existing[CHOOSE j \in old : TRUE]["segment_params"]])]

\* "Preserve segment_file from existing manifest": a new table entry takes the
\* segment_file of the existing entry when that is set
PreserveSegmentFile(table, existing) ==
    [s \in DOMAIN table |->
        IF s \in DOMAIN existing /\ Get(existing[s], "segment_file", None) # None
        THEN Update(table[s], [segment_file |-> existing[s]["segment_file"]])
        ELSE table[s]]

\* lesson1.create_manifest(audio_files, downloaded, existing_manifest)
lesson1_create_manifest_over(audio_files, downloaded, existing_manifest) ==
    LET fresh == lesson1_create_manifest(audio_files, downloaded)
    IN [columns |-> PreserveSegmentParams(fresh["columns"],
                                          Get(existing_manifest, "columns", <<>>)),
        rows |-> PreserveSegmentParams(fresh["rows"], Get(existing_manifest, "rows", <<>>)),
        syllable_table |-> PreserveSegmentFile(fresh["syllable_table"],
                                Get(existing_manifest, "syllable_table", EmptyDict))]

\* lesson3.create_manifest(audio_files, downloaded, existing_manifest)
lesson3_create_manifest_over(downloaded, existing_manifest) ==
    LET fresh == lesson3_create_manifest(downloaded)
    IN [rows |-> PreserveSegmentParams(fresh["rows"], Get(existing_manifest, "rows", <<>>)),
        syllable_table |-> PreserveSegmentFile(fresh["syllable_table"],
                                Get(existing_manifest, "syllable_table", EmptyDict))]

InitScrape ==
    /\ manifest \in ScrapedManifests
    /\ clips = EmptyDict
    /\ audio = [f \in AudioPaths |-> "ok"]
    /\ last = [op |-> "init", ret |-> "None"]
    /\ ops = 0
    /\ inflight = Idle

\* scrape_lesson1 / scrape_lesson3 in a lesson directory that has a manifest:
\* the files that download may differ from last time
ScrapeAgain ==
    /\ ops < MaxRuns
    /\ \E downloaded \in {{"A", "TIKEUT", "KIYEOK"}, {"A", "KIYEOK"}} :
        manifest' = IF Has(manifest, "columns")
                    THEN lesson1_create_manifest_over(parse_pronunciation_table, downloaded,
                                                      manifest)
                    ELSE lesson3_create_manifest_over({"AE"}, manifest)
    /\ last' = [op |-> "scrape", ret |-> "manifest"]
    /\ ops' = ops + 1
    /\ UNCHANGED <<clips, audio, inflight>>

NextScrape == BatchDefault \/ ApplyManualWide \/ ScrapeAgain

SpecScrape == InitScrape /\ [][NextScrape]_vars

(***************************************************************************)
(* The operations step by step: each loads manifest.json, exports clips,   *)
(* and writes manifest.json back, with no lock on the file; two processes  *)
(* work on the same lesson directory and either may die between two steps. *)
(***************************************************************************)
\* operations started in a run
MaxStarts == 3

\* the arguments of the step-by-step runs
StepRowInputs == {<<200, -40, 50, 0, 0>>, <<150, -40, 75, 1, 0>>}

StepBatchInputs == {<<200, -40, 50, FALSE>>}

StepManualInputs == {<<50, 350, 75>>}

\* the syllables the editor adjusts: those of the last row
EditorSyllables ==
    Range(manifest["rows"][Len(manifest["rows"])]["syllables"])

InitSteps ==
    /\ manifest = lesson1_create_manifest(parse_pronunciation_table, {"A", "TIKEUT", "KIYEOK"})
    /\ clips = EmptyDict
    /\ audio = [f \in SourceFiles(manifest) |-> "ok"]
    /\ last = [op |-> "init", ret |-> "None"]
    /\ ops = 0
    /\ inflight = Idle

\* process p starts the call: it has loaded the manifest
Begin(p, call) ==
    /\ inflight[p].pc = "idle"
    /\ ops < MaxStarts
    /\ inflight' = [inflight EXCEPT ![p] = [pc |-> "read", call |-> call,
                                           manifest |-> manifest]]
    /\ ops' = ops + 1
    /\ UNCHANGED <<manifest, clips, audio, last>>

\* process p goes on to rec, with manifest.json and the clips as given
Step(p, rec, m, disk) ==
    /\ inflight' = [inflight EXCEPT ![p] = rec]
    /\ manifest' = m
    /\ clips' = disk
    /\ UNCHANGED <<audio, last, ops>>

\* process p returns ret (or dies: ret = "crashed")
Return(p, ret, m, disk, kept) ==
    /\ inflight' = [inflight EXCEPT ![p] =
                        Update(kept, [pc |-> "idle", call |-> inflight[p].call, ret |-> ret])]
    /\ manifest' = m
    /\ clips' = disk
    /\ last' = Update(inflight[p].call, [ret |-> ret])
    /\ UNCHANGED <<audio, ops>>

\* apply_manual_segment / reset_manual_segment: json.load
ApplyManualRead ==
    \E syllable \in EditorSyllables, in \in StepManualInputs :
        Begin("editor", [op |-> "apply_manual", syllable |-> syllable, start_ms |-> in[1],
                         end_ms |-> in[2], padding_ms |-> in[3]])

ResetManualRead ==
    \E syllable \in EditorSyllables :
        Begin("editor", [op |-> "reset_manual", syllable |-> syllable])

\* what the editor's call makes of the manifest it loaded
EditorOutcome(rec, disk) ==
    IF rec.call.op = "apply_manual"
    THEN apply_manual_segment(rec.manifest, disk, audio, rec.call.syllable,
                              rec.call.start_ms, rec.call.end_ms, rec.call.padding_ms)
    ELSE reset_manual_segment(rec.manifest, disk, audio, rec.call.syllable)

\* the checks, from_mp3 and segment.export
EditorExport ==
    /\ inflight["editor"].pc = "read"
    /\ LET rec == inflight["editor"]
           out == EditorOutcome(rec, clips)
       IN IF out.ret # "True"
          THEN Return("editor", out.ret, manifest, clips, EmptyDict)
          ELSE Step("editor", [rec EXCEPT !.pc = "exported"], manifest, out.clips)

\* json.dump of the manifest the call loaded and changed
EditorWrite ==
    /\ inflight["editor"].pc = "exported"
    /\ Return("editor", "True", EditorOutcome(inflight["editor"], clips).manifest, clips,
              EmptyDict)

\* segment_single_row: json.load
SingleRowRead ==
    \E row \in RowNames(manifest), in \in StepRowInputs :
        Begin("segmenter", [op |-> "segment_single_row", row_romanization |-> row,
                            min_silence |-> in[1], threshold |-> in[2], padding |-> in[3],
                            skip_first |-> in[4], skip_last |-> in[5]])

\* target_row["segment_params"] = result.effective_params
StoreEffectiveParams(m, t, effective_params) ==
    Update(m, [rows |-> [m["rows"] EXCEPT ![t] =
                Update(m["rows"][t], [segment_params |-> effective_params])]])

\* the row lookup and segment_audio_file, which exports the clips
SingleRowExport ==
    /\ inflight["segmenter"].pc = "read"
    /\ inflight["segmenter"].call.op = "segment_single_row"
    /\ LET rec == inflight["segmenter"]
           rows == Get(rec.manifest, "rows", <<>>)
           t == FindRow(rows, rec.call.row_romanization)
           result == segment_audio_file(rows[t]["file"], rows[t]["syllables"], 200, -40, 50,
                        BuildCustomParams(rec.call.min_silence, rec.call.threshold,
                                          rec.call.padding, rec.call.skip_first,
                                          rec.call.skip_last))
       IN IF t = 0 THEN Return("segmenter", "None", manifest, clips, EmptyDict)
          ELSE IF audio[rows[t]["file"]] = "missing"
          THEN Return("segmenter", "None", manifest, clips, EmptyDict)
          ELSE IF audio[rows[t]["file"]] = "corrupt"
          THEN Return("segmenter", "raised", manifest, clips, EmptyDict)
          ELSE Step("segmenter",
                    [pc |-> "exported", call |-> rec.call, manifest |-> rec.manifest,
                     row |-> t, result |-> result],
                    manifest, Update(clips, result.exports))

\* the first json.dump of segment_single_row
SingleRowStore ==
    /\ inflight["segmenter"].pc = "exported"
    /\ LET rec == inflight["segmenter"]
       IN Step("segmenter",
               [pc |-> "stored", call |-> rec.call, row |-> rec.row, result |-> rec.result,
                timestamps |-> rec.result.timestamps],
               StoreEffectiveParams(rec.manifest, rec.row, rec.result.effective_params),
               clips)

\* segment_lesson1: json.load
BatchRead ==
    \E in \in StepBatchInputs :
        /\ inflight["segmenter"].pc = "idle"
        /\ ops < MaxStarts
        /\ inflight' = [inflight EXCEPT !["segmenter"] =
                [pc |-> "read", manifest |-> manifest, next |-> 1,
                 call |-> [op |-> "segment_lesson1", min_silence_len |-> in[1],
                           silence_thresh |-> in[2], padding_ms |-> in[3],
                           reset_params |-> in[4]]]]
        /\ ops' = ops + 1
        /\ UNCHANGED <<manifest, clips, audio, last>>

\* the result of source i of the batch, from the manifest the batch loaded
BatchResult(rec, i) ==
    SourceResult(Sources(rec.manifest), i, rec.call.min_silence_len,
                 rec.call.silence_thresh, rec.call.padding_ms, rec.call.reset_params)

\* one pass of the loops of segment_lesson1: the next source is skipped when
\* its file is missing, ends the run when it cannot be decoded, and has its
\* clips exported otherwise
BatchSource ==
    /\ inflight["segmenter"].pc = "read"
    /\ inflight["segmenter"].call.op = "segment_lesson1"
    /\ inflight["segmenter"].next <= Len(Sources(inflight["segmenter"].manifest))
    /\ LET rec == inflight["segmenter"]
           file == Sources(rec.manifest)[rec.next]["file"]
       IN IF audio[file] = "missing"
          THEN Step("segmenter", [rec EXCEPT !.next = @ + 1], manifest, clips)
          ELSE IF audio[file] = "corrupt"
          THEN Return("segmenter", "raised", manifest, clips, EmptyDict)
          ELSE Step("segmenter", [rec EXCEPT !.next = @ + 1], manifest,
                    Update(clips, BatchResult(rec, rec.next).exports))

\* the json.dump of segment_lesson1 after the loops
BatchStore ==
    /\ inflight["segmenter"].pc = "read"
    /\ inflight["segmenter"].call.op = "segment_lesson1"
    /\ inflight["segmenter"].next > Len(Sources(inflight["segmenter"].manifest))
    /\ LET rec == inflight["segmenter"]
           infos == Sources(rec.manifest)
           batch == BatchOutcome(infos, audio,
                        [i \in 1..Len(infos) |->
                            IF audio[infos[i]["file"]] = "ok" THEN BatchResult(rec, i)
                            ELSE EmptyDict])
       IN Step("segmenter",
               [pc |-> "stored", call |-> rec.call, timestamps |-> batch.all_timestamps],
               WithSegmentParams(rec.manifest, batch.infos), clips)

\* update_manifest_with_segments: json.load
UpdateRead ==
    /\ inflight["segmenter"].pc = "stored"
    /\ Step("segmenter",
            Update(inflight["segmenter"], [pc |-> "reread", manifest |-> manifest]),
            manifest, clips)

\* update_manifest_with_segments: the pass over the syllable table and json.dump
UpdateWrite ==
    /\ inflight["segmenter"].pc = "reread"
    /\ LET rec == inflight["segmenter"]
       IN Return("segmenter",
                 IF rec.call.op = "segment_lesson1" THEN "results" ELSE "result",
                 update_manifest_with_segments(rec.manifest, DOMAIN clips, rec.timestamps),
                 clips,
                 IF Has(rec, "result") THEN [row |-> rec.row, result |-> rec.result]
                 ELSE EmptyDict)

\* a process dies in the middle of its operation
Crash ==
    \E p \in Procs :
        /\ inflight[p].pc # "idle"
        /\ Return(p, "crashed", manifest, clips, EmptyDict)

NextSteps ==
    \/ ApplyManualRead \/ ResetManualRead \/ EditorExport \/ EditorWrite
    \/ SingleRowRead \/ SingleRowExport \/ SingleRowStore
    \/ BatchRead \/ BatchSource \/ BatchStore
    \/ UpdateRead \/ UpdateWrite
    \/ Crash

SpecSteps == InitSteps /\ [][NextSteps]_vars

(***************************************************************************)
(* Properties                                                              *)
(***************************************************************************)
Table(m) == m["syllable_table"]

RomanizationOf(m, s) == Get(Table(m)[s], "romanization", "")

\* the "segment" of syllable s, None when the entry has none
SegmentOf(m, s) == Get(Table(m)[s], "segment", None)

HasField(m, s, f) == IsDict(SegmentOf(m, s)) /\ Has(SegmentOf(m, s), f)

FieldOf(m, s, f) == IF HasField(m, s, f) THEN SegmentOf(m, s)[f] ELSE None

\* the keys of a timestamp map, which may be None
KeysOf(all_timestamps) == IF all_timestamps = None THEN {} ELSE DOMAIN all_timestamps

\* the sources of m that list syllable s
SourcesListing(m, s) == {i \in 1..Len(Sources(m)) : s \in Range(Sources(m)[i]["syllables"])}

\* the rows of m that list syllable s
RowsListing(m, s) ==
    {i \in 1..Len(Get(m, "rows", <<>>)) : s \in Range(Get(m, "rows", <<>>)[i]["syllables"])}

BaselineOps == {"segment_lesson1", "segment_single_row"}

\* C1: update_manifest_with_segments leaves every syllable-table entry whose
\* romanization is not a key of the timestamp map exactly as it was, its
\* baseline and its manual included.
C1_SelectiveUpdate ==
    [][last'.op = "update_manifest_with_segments" =>
        \A s \in DOMAIN Table(manifest) :
            RomanizationOf(manifest, s) \notin KeysOf(last'.all_timestamps) =>
                /\ s \in DOMAIN Table(manifest')
                /\ Table(manifest')[s] = Table(manifest)[s]]_vars

\* a reconciliation has rewritten one syllable and stepped over another that
\* has a baseline and a manual
C1_Witness ==
    /\ last.op = "update_manifest_with_segments"
    /\ \E s, t \in Syllables :
        /\ RomanizationOf(manifest, s) \notin KeysOf(last.all_timestamps)
        /\ HasField(manifest, s, "baseline")
        /\ HasField(manifest, s, "manual")
        /\ RomanizationOf(manifest, t) \in KeysOf(last.all_timestamps)
        /\ FieldOf(manifest, t, "baseline") = SegmentTimestamp(10, 410, 0, 485)

\* C2: when the reconciliation names a syllable that has a manual and whose
\* clip is on disk, the baseline becomes the new time range and the manual
\* stays exactly as it was.
C2_ManualSurvivesRefresh ==
    [][last'.op = "update_manifest_with_segments" =>
        \A s \in DOMAIN Table(manifest) :
            (/\ HasField(manifest, s, "manual")
             /\ RomanizationOf(manifest, s) \in KeysOf(last'.all_timestamps)
             /\ RomanizationOf(manifest, s) \in DOMAIN clips) =>
                /\ FieldOf(manifest', s, "baseline") =
                        last'.all_timestamps[RomanizationOf(manifest, s)]
                /\ HasField(manifest', s, "manual")
                /\ FieldOf(manifest', s, "manual") = FieldOf(manifest, s, "manual")]_vars

\* a reconciliation has given a new baseline to a syllable that has a manual
C2_Witness ==
    /\ last.op = "update_manifest_with_segments"
    /\ \E s \in Syllables :
        /\ RomanizationOf(manifest, s) \in KeysOf(last.all_timestamps)
        /\ RomanizationOf(manifest, s) \in DOMAIN clips
        /\ HasField(manifest, s, "manual")
        /\ FieldOf(manifest, s, "manual").start_ms = 50
        /\ FieldOf(manifest, s, "baseline") = SegmentTimestamp(10, 410, 0, 485)

\* C3: a manual appears or changes only by a successful apply_manual on that
\* syllable, disappears only by a successful reset_manual on that syllable,
\* and no batch or single-row segmentation creates, changes or removes one.
C3_ManualOnlyByManualOps ==
    [][\A s \in DOMAIN Table(manifest) :
        /\ s \in DOMAIN Table(manifest')
        /\ FieldOf(manifest', s, "manual") # FieldOf(manifest, s, "manual") =>
            \/ /\ last'.op = "apply_manual"
               /\ last'.syllable = s
               /\ last'.ret = "True"
               /\ HasField(manifest', s, "manual")
            \/ /\ last'.op = "reset_manual"
               /\ last'.syllable = s
               /\ last'.ret = "True"
               /\ ~HasField(manifest', s, "manual")
        /\ last'.op \in BaselineOps =>
            FieldOf(manifest', s, "manual") = FieldOf(manifest, s, "manual")]_vars

\* a segmentation has written the baseline of a syllable that has a manual
C3_Witness ==
    /\ last.op \in BaselineOps
    /\ last.ret \in {"result", "results"}
    /\ \E s \in Syllables :
        /\ HasField(manifest, s, "manual")
        /\ HasField(manifest, s, "baseline")
        /\ RomanizationOf(manifest, s) \in DOMAIN clips
        /\ clips[RomanizationOf(manifest, s)].to_ms =
                FieldOf(manifest, s, "baseline").padded_end_ms

\* C4: a syllable that has a baseline keeps having one; its baseline changes
\* only by a segmentation that returned and cut that syllable's clip at the
\* new baseline, and apply_manual and reset_manual leave it as it was.
C4_BaselineOnlyByExtraction ==
    [][\A s \in DOMAIN Table(manifest) :
        /\ s \in DOMAIN Table(manifest')
        /\ HasField(manifest, s, "baseline") => HasField(manifest', s, "baseline")
        /\ FieldOf(manifest', s, "baseline") # FieldOf(manifest, s, "baseline") =>
            /\ last'.op \in BaselineOps
            /\ last'.ret \in {"result", "results"}
            /\ RomanizationOf(manifest, s) \in DOMAIN clips'
            /\ \E i \in SourcesListing(manifest, s) :
                clips'[RomanizationOf(manifest, s)] =
                    Clip(Sources(manifest)[i]["file"],
                         FieldOf(manifest', s, "baseline").padded_start_ms,
                         FieldOf(manifest', s, "baseline").padded_end_ms)]_vars

\* apply_manual has succeeded on a syllable that has a baseline
C4_Witness ==
    /\ last.op = "apply_manual"
    /\ last.ret = "True"
    /\ HasField(manifest, last.syllable, "baseline")
    /\ HasField(manifest, last.syllable, "manual")

\* the rows named row_romanization, and the keys their syllables are filed under
RowsNamed(m, row_romanization) ==
    {i \in 1..Len(Get(m, "rows", <<>>)) :
        Get(Get(m, "rows", <<>>)[i], "romanization", "") = row_romanization}

KeysOfRows(m, named) ==
    {romanize_syllable(x) : x \in UNION {Range(m["rows"][i]["syllables"]) : i \in named}}

C6_EmptyBatchNoOp ==
    [][(last'.op = "update_manifest_with_segments" /\ KeysOf(last'.all_timestamps) = {}) =>
        manifest' = manifest]_vars

\* an empty reconciliation has run on a manifest with a baseline, a manual
\* and a clip on disk
C6_Witness ==
    /\ last.op = "update_manifest_with_segments"
    /\ last.all_timestamps \in {None, EmptyDict}
    /\ \E s \in Syllables :
        /\ HasField(manifest, s, "baseline")
        /\ HasField(manifest, s, "manual")
        /\ RomanizationOf(manifest, s) \in DOMAIN clips

\* C7: reset_manual on a syllable whose segment has a manual and no baseline
\* returns False and changes neither the manifest nor any clip.
C7_ResetRequiresBaseline ==
    [][(/\ last'.op = "reset_manual"
        /\ last'.syllable \in DOMAIN Table(manifest)
        /\ HasField(manifest, last'.syllable, "manual")
        /\ ~HasField(manifest, last'.syllable, "baseline")) =>
            /\ last'.ret = "False"
            /\ manifest' = manifest
            /\ clips' = clips]_vars

\* reset_manual has refused a syllable that has a manual, no baseline, a clip
\* and a readable source
C7_Witness ==
    /\ last.op = "reset_manual"
    /\ last.ret = "False"
    /\ last.syllable \in Syllables
    /\ HasField(manifest, last.syllable, "manual")
    /\ ~HasField(manifest, last.syllable, "baseline")
    /\ RomanizationOf(manifest, last.syllable) \in DOMAIN clips
    /\ \E r \in RowsListing(manifest, last.syllable) :
            audio[manifest["rows"][r]["file"]] = "ok"

\* C8: a successful apply_manual(syllable, start, end, padding) sets the manual
\* to start, end, max(0, start - padding) and min(audio length, end + padding),
\* keeps an existing baseline and file, and gives a syllable that had no
\* segment (absent, null or empty) one whose file is syllables/<romanization>.mp3.
C8_ApplyManualEffect ==
    [][(last'.op = "apply_manual" /\ last'.ret = "True") =>
        LET s == last'.syllable
            before == SegmentOf(manifest, s)
            after == SegmentOf(manifest', s)
        IN /\ HasField(manifest', s, "manual")
           /\ \E r \in RowsListing(manifest, s) :
                after["manual"] =
                    [start_ms |-> last'.start_ms,
                     end_ms |-> last'.end_ms,
                     padded_start_ms |-> Max(0, last'.start_ms - last'.padding_ms),
                     padded_end_ms |-> Min(AudioLen(manifest["rows"][r]["file"]),
                                           last'.end_ms + last'.padding_ms)]
           /\ FieldOf(manifest', s, "baseline") = FieldOf(manifest, s, "baseline")
           /\ HasField(manifest, s, "file") =>
                FieldOf(manifest', s, "file") = FieldOf(manifest, s, "file")
           /\ (~IsDict(before) \/ before = EmptyDict) =>
                /\ DOMAIN after = {"file", "manual"}
                /\ after["file"] = "syllables/" \o RomanizationOf(manifest, s) \o ".mp3"]_vars

\* apply_manual has succeeded on a syllable that has a baseline, with the
\* padded end cut at the end of the audio
C8_Witness ==
    /\ last.op = "apply_manual"
    /\ last.ret = "True"
    /\ HasField(manifest, last.syllable, "baseline")
    /\ FieldOf(manifest, last.syllable, "file") =
            "syllables/" \o RomanizationOf(manifest, last.syllable) \o ".mp3"
    /\ FieldOf(manifest, last.syllable, "manual").padded_end_ms <
            last.end_ms + last.padding_ms

\* C9: a successful reset_manual deletes the syllable's manual, leaves its
\* baseline and file as they were, and cuts the syllable's clip again from the
\* owning row's audio at [baseline.padded_start_ms, baseline.padded_end_ms].
C9_ResetManualEffect ==
    [][(last'.op = "reset_manual" /\ last'.ret = "True") =>
        LET s == last'.syllable
        IN /\ ~HasField(manifest', s, "manual")
           /\ HasField(manifest, s, "baseline")
           /\ FieldOf(manifest', s, "baseline") = FieldOf(manifest, s, "baseline")
           /\ FieldOf(manifest', s, "file") = FieldOf(manifest, s, "file")
           /\ RomanizationOf(manifest, s) \in DOMAIN clips'
           /\ \E r \in RowsListing(manifest, s) :
                clips'[RomanizationOf(manifest, s)] =
                    Clip(manifest["rows"][r]["file"],
                         FieldOf(manifest, s, "baseline").padded_start_ms,
                         FieldOf(manifest, s, "baseline").padded_end_ms)
           /\ \A k \in DOMAIN clips \ {RomanizationOf(manifest, s)} :
                k \in DOMAIN clips' /\ clips'[k] = clips[k]]_vars

\* reset_manual has succeeded after a segmentation and an apply_manual
C9_Witness ==
    /\ last.op = "reset_manual"
    /\ last.ret = "True"
    /\ ~HasField(manifest, last.syllable, "manual")
    /\ HasField(manifest, last.syllable, "baseline")
    /\ clips[RomanizationOf(manifest, last.syllable)].to_ms =
            FieldOf(manifest, last.syllable, "baseline").padded_end_ms

\* C10 as stated: apply_manual returns False when the syllable is not in the
\* syllable table, when no source lists it, or when the owning row's audio is
\* not available (missing, or not decodable), and then the manifest and the
\* clips are as before the call.
C10_ApplyManualFailsClosed ==
    [][(/\ last'.op = "apply_manual"
        /\ \/ last'.syllable \notin DOMAIN Table(manifest)
           \/ SourcesListing(manifest, last'.syllable) = {}
           \/ \E r \in RowsListing(manifest, last'.syllable) :
                audio[manifest["rows"][r]["file"]] # "ok") =>
            /\ last'.ret = "False"
            /\ manifest' = manifest
            /\ clips' = clips]_vars

\* C11: apply_manual and reset_manual on syllable X leave every other
\* syllable's entry (file, baseline, manual), every source entry with its
\* persisted segment_params, and every other syllable's clip as they were.
C11_ManualOpsTouchOneSyllable ==
    [][last'.op \in {"apply_manual", "reset_manual"} =>
        /\ \A s \in DOMAIN Table(manifest) \ {last'.syllable} :
            /\ s \in DOMAIN Table(manifest')
            /\ Table(manifest')[s] = Table(manifest)[s]
        /\ Sources(manifest') = Sources(manifest)
        /\ \A k \in DOMAIN clips :
            (last'.syllable \in DOMAIN Table(manifest) =>
                k # RomanizationOf(manifest, last'.syllable)) =>
                    k \in DOMAIN clips' /\ clips'[k] = clips[k]]_vars

\* reset_manual has succeeded on one syllable while another has a baseline
\* and a manual, and a source has persisted segment_params
C11_Witness ==
    /\ last.op = "reset_manual"
    /\ last.ret = "True"
    /\ \E s \in Syllables \ {last.syllable} :
        /\ HasField(manifest, s, "baseline")
        /\ HasField(manifest, s, "manual")
    /\ \E i \in 1..Len(Sources(manifest)) : Has(Sources(manifest)[i], "segment_params")

\* the syllable of the lifecycle and the syllables of the other row
Ga == compose_syllable("KIYEOK", "A")

OtherRowSyllables == {compose_syllable("TIKEUT", v) : v \in Range(VOWELS_ORDER)}

OtherRowUnchanged ==
    \A s \in OtherRowSyllables : Table(manifest')[s] = Table(manifest)[s]

\* C12: from baseline {0,400,[0,475]} without manual, apply_manual(50,350,75)
\* gives manual {50,350,[0,425]} and keeps the baseline; a reconciliation with
\* the new baseline {8,398} then replaces the baseline and keeps that manual;
\* reset_manual then deletes the manual and keeps baseline {8,398}; the other
\* row's syllables are unchanged by each step.
C12_Lifecycle ==
    [][/\ (/\ FieldOf(manifest, Ga, "baseline") = SegmentTimestamp(0, 400, 0, 475)
           /\ ~HasField(manifest, Ga, "manual")
           /\ last'.op = "apply_manual"
           /\ last'.syllable = Ga
           /\ <<last'.start_ms, last'.end_ms, last'.padding_ms>> = <<50, 350, 75>>) =>
                /\ last'.ret = "True"
                /\ FieldOf(manifest', Ga, "manual") = SegmentTimestamp(50, 350, 0, 425)
                /\ FieldOf(manifest', Ga, "baseline") = SegmentTimestamp(0, 400, 0, 475)
                /\ OtherRowUnchanged
       /\ (/\ FieldOf(manifest, Ga, "manual") = SegmentTimestamp(50, 350, 0, 425)
           /\ last'.op = "update_manifest_with_segments"
           /\ "ga" \in KeysOf(last'.all_timestamps)) =>
                /\ FieldOf(manifest', Ga, "baseline") = last'.all_timestamps["ga"]
                /\ FieldOf(manifest', Ga, "manual") = SegmentTimestamp(50, 350, 0, 425)
                /\ OtherRowUnchanged
       /\ (/\ FieldOf(manifest, Ga, "baseline") = SegmentTimestamp(8, 398, 0, 473)
           /\ FieldOf(manifest, Ga, "manual") = SegmentTimestamp(50, 350, 0, 425)
           /\ last'.op = "reset_manual"
           /\ last'.syllable = Ga) =>
                /\ last'.ret = "True"
                /\ ~HasField(manifest', Ga, "manual")
                /\ FieldOf(manifest', Ga, "baseline") = SegmentTimestamp(8, 398, 0, 473)
                /\ OtherRowUnchanged]_vars

\* the three steps have run: the clip is cut at the new baseline, the manual
\* is gone, and the other row is as create_base_manifest has it
C12_Witness ==
    /\ ops = 3
    /\ last.op = "reset_manual"
    /\ last.ret = "True"
    /\ last.syllable = Ga
    /\ SegmentOf(manifest, Ga) =
            [file |-> "syllables/ga.mp3", baseline |-> SegmentTimestamp(8, 398, 0, 473)]
    /\ clips["ga"] = Clip("rows/row_g.mp3", 0, 473)
    /\ \A s \in OtherRowSyllables : Table(manifest)[s] = Table(create_base_manifest)[s]

\* the override segment_audio_file resolves for a call, and the intervals left
\* after its structural directives
CallOverride(call) ==
    Update(Get(DEFAULT_AUDIO_OVERRIDES, Basename(call.audio_path), EmptyDict),
           call.manifest_params)

CallBoundaries(call) ==
    EffectiveBoundaries(call.audio_path, CallOverride(call), call.result.effective_params)

\* C13: with n intervals left after the structural directives and m expected
\* syllables, segment_audio_file returns a result with mismatch = (n # m) and
\* min(n, m) clips, interval i paired with syllable i, and no time range for a
\* surplus interval or a syllable beyond the intervals; 4 intervals against 3
\* syllables without skips give mismatch, 3 saved, 4 found.
C13_MismatchAndPairing ==
    last.op = "segment_audio_file" =>
        LET n == Len(CallBoundaries(last))
            m == Len(last.syllables)
            paired == IF n <= m THEN n ELSE m
            res == last.result
        IN /\ last.ret = "result"
           /\ res.mismatch = (n # m)
           /\ res.segments_saved = paired
           /\ Len(res.output_files) = paired
           /\ DOMAIN res.timestamps = {romanize_syllable(last.syllables[i]) : i \in 1..paired}
           /\ DOMAIN clips = DOMAIN res.timestamps
           /\ \A i \in 1..paired :
                /\ res.timestamps[romanize_syllable(last.syllables[i])].start_ms =
                        CallBoundaries(last)[i][1]
                /\ res.timestamps[romanize_syllable(last.syllables[i])].end_ms =
                        CallBoundaries(last)[i][2]
                /\ clips[romanize_syllable(last.syllables[i])].source = last.audio_path
                /\ clips[romanize_syllable(last.syllables[i])].from_ms =
                        res.timestamps[romanize_syllable(last.syllables[i])].padded_start_ms
                /\ clips[romanize_syllable(last.syllables[i])].to_ms =
                        res.timestamps[romanize_syllable(last.syllables[i])].padded_end_ms
           /\ (n = 4 /\ m = 3 /\ res.skipped_segments = 0) =>
                /\ res.mismatch
                /\ res.segments_saved = 3
                /\ res.segments_found = 4

\* four intervals were found for three syllables, without skips
C13_Witness ==
    /\ last.op = "segment_audio_file"
    /\ Len(last.syllables) = 3
    /\ Len(CallBoundaries(last)) = 4
    /\ last.result.skipped_segments = 0
    /\ last.result.mismatch
    /\ last.result.segments_saved = 3
    /\ last.result.segments_found = 4
    /\ DOMAIN clips = {"ga", "geo", "da"}

\* C14 as stated: reset_manual returns True only for a syllable that has a
\* baseline and a manual; in every other state it returns False and changes
\* nothing.
C14_ResetOnlyFromBaselineAndManual ==
    [][last'.op = "reset_manual" =>
        LET both == /\ last'.syllable \in DOMAIN Table(manifest)
                    /\ HasField(manifest, last'.syllable, "baseline")
                    /\ HasField(manifest, last'.syllable, "manual")
        IN /\ last'.ret = "True" => both
           /\ ~both => (last'.ret = "False" /\ manifest' = manifest /\ clips' = clips)]_vars

\* C14: reset_manual returns True only for a syllable that has a baseline,
\* with or without a manual, and does so whenever a row with readable audio
\* lists the syllable; from baseline only it leaves the manifest as it was.
\* For a syllable that is unknown, has no segment, or has a manual without a
\* baseline it returns False and changes nothing.
C14_ResetOnlyFromBaseline ==
    [][last'.op = "reset_manual" =>
        LET s == last'.syllable
            known == s \in DOMAIN Table(manifest)
            based == known /\ HasField(manifest, s, "baseline")
        IN /\ last'.ret = "True" => based
           /\ ~based => (last'.ret = "False" /\ manifest' = manifest /\ clips' = clips)
           /\ (based /\ \E r \in RowsListing(manifest, s) :
                            audio[manifest["rows"][r]["file"]] = "ok") =>
                last'.ret = "True"
           /\ (based /\ ~HasField(manifest, s, "manual") /\ last'.ret = "True") =>
                manifest' = manifest]_vars

\* reset_manual has succeeded right after the segmentation that gave the
\* syllable its baseline: no manual was ever applied
C14_Witness ==
    /\ ops = 2
    /\ last.op = "reset_manual"
    /\ last.ret = "True"
    /\ HasField(manifest, last.syllable, "baseline")
    /\ ~HasField(manifest, last.syllable, "manual")

\* C15 as stated: in every reachable state a syllable whose segment has a
\* manual has, as its clip, the cut of the manual's padded window from the
\* audio of a row that lists it.
C15_ManualWinsForPlayback ==
    \A s \in Syllables :
        HasField(manifest, s, "manual") =>
            /\ RomanizationOf(manifest, s) \in DOMAIN clips
            /\ \E r \in RowsListing(manifest, s) :
                clips[RomanizationOf(manifest, s)] =
                    Clip(manifest["rows"][r]["file"],
                         FieldOf(manifest, s, "manual").padded_start_ms,
                         FieldOf(manifest, s, "manual").padded_end_ms)

\* the persisted override of the source as the call sees it, and the entry of
\* the default table for its file
PersistedOverride(call) ==
    IF call.op = "segment_source" /\ call.reset_params THEN EmptyDict
    ELSE call.manifest_params

TableOverride(call) ==
    Get(DEFAULT_AUDIO_OVERRIDES, Basename(call.audio_path), EmptyDict)

\* persisted value, else the table's, else the caller's base value
ByPrecedence(call, field, base) ==
    IF Has(PersistedOverride(call), field) THEN PersistedOverride(call)[field]
    ELSE IF Has(TableOverride(call), field) THEN TableOverride(call)[field]
    ELSE base

HasDirective(call, field) ==
    Has(PersistedOverride(call), field) \/ Has(TableOverride(call), field)

\* C16: each of min_silence, threshold, padding, skip_first and skip_last that
\* segment_audio_file uses is, independently, the persisted override's value
\* if it sets the field, else the default table's value if it sets the field,
\* else the caller's base value (numeric fields) or no directive (structural
\* fields); with the reset flag the persisted override contributes nothing.
C16_OverridePrecedence ==
    last.op \in {"segment_audio_file", "segment_source"} =>
        LET eff == last.result.effective_params
            min_silence == ByPrecedence(last, "min_silence", last.min_silence_len)
            threshold == ByPrecedence(last, "threshold", last.silence_thresh)
            padding == ByPrecedence(last, "padding", last.padding_ms)
            skip_first == ByPrecedence(last, "skip_first", 0)
            skip_last == ByPrecedence(last, "skip_last", 0)
            used == DropLast(DropFirst(
                        detect_syllable_boundaries(last.audio_path, min_silence, threshold),
                        skip_first), skip_last)
            paired == Min(Len(used), Len(last.syllables))
        IN /\ eff["min_silence"] = min_silence
           /\ eff["threshold"] = threshold
           /\ eff["padding"] = padding
           /\ Has(eff, "skip_first") = HasDirective(last, "skip_first")
           /\ Has(eff, "skip_first") => eff["skip_first"] = skip_first
           /\ Has(eff, "skip_last") = HasDirective(last, "skip_last")
           /\ Has(eff, "skip_last") => eff["skip_last"] = skip_last
           /\ last.result.skipped_segments = skip_first + skip_last
           /\ last.result.segments_saved = paired
           /\ \A i \in 1..paired :
                LET key == romanize_syllable(last.syllables[i])
                IN /\ last.result.timestamps[key].start_ms = used[i][1]
                   /\ last.result.timestamps[key].end_ms = used[i][2]
                   /\ clips[key] = Clip(last.audio_path, Max(0, used[i][1] - padding),
                                        Min(AudioLen(last.audio_path), used[i][2] + padding))

\* row_k without reset: padding and skip_first come from the persisted
\* override, min_silence from the default table, threshold from the caller
C16_Witness ==
    /\ last.op = "segment_source"
    /\ ~last.reset_params
    /\ last.audio_path = "rows/row_k.mp3"
    /\ last.manifest_params = [skip_first |-> 0, padding |-> 75]
    /\ last.min_silence_len = 200 /\ last.silence_thresh = -40 /\ last.padding_ms = 50
    /\ last.result.effective_params =
            [min_silence |-> 150, threshold |-> -40, padding |-> 75, skip_first |-> 0]
    /\ last.result.segments_found = 3

\* C17: when apply_manual or reset_manual on syllable X and a single-source
\* segmentation that names only other syllables have both returned, however
\* their reads and writes of the manifest interleaved, the persisted manifest
\* holds X's manual change as well as the new baselines and the source
\* override of the segmentation.
C17_NoLostUpdate ==
    LET e == inflight["editor"]
        g == inflight["segmenter"]
    IN (/\ e.pc = "idle" /\ Has(e, "ret") /\ e.ret = "True"
        /\ g.pc = "idle" /\ Has(g, "ret") /\ g.ret = "result"
        /\ e.call.syllable \notin Range(manifest["rows"][g.row]["syllables"]))
       => /\ IF e.call.op = "apply_manual"
             THEN /\ HasField(manifest, e.call.syllable, "manual")
                  /\ FieldOf(manifest, e.call.syllable, "manual").start_ms = e.call.start_ms
                  /\ FieldOf(manifest, e.call.syllable, "manual").end_ms = e.call.end_ms
             ELSE ~HasField(manifest, e.call.syllable, "manual")
          /\ Has(manifest["rows"][g.row], "segment_params")
          /\ manifest["rows"][g.row]["segment_params"] = g.result.effective_params
          /\ \A s \in Range(manifest["rows"][g.row]["syllables"]) :
                RomanizationOf(manifest, s) \in DOMAIN g.result.timestamps =>
                    FieldOf(manifest, s, "baseline") =
                        g.result.timestamps[RomanizationOf(manifest, s)]

\* C18: after a batch in which the audio of one source is missing or cannot
\* be decoded, every other source has been segmented and reconciled: it
\* carries the parameters of the run and has syllables with a clip and a
\* baseline in the manifest.
C18_PerSourceIsolation ==
    last.op = "segment_lesson1" =>
        \A i \in 1..Len(Sources(manifest)) :
            audio[Sources(manifest)[i]["file"]] = "ok" =>
                /\ Has(Sources(manifest)[i], "segment_params")
                /\ \E s \in Range(Sources(manifest)[i]["syllables"]) :
                        /\ RomanizationOf(manifest, s) \in DOMAIN clips
                        /\ HasField(manifest, s, "baseline")

\* C19: in every state, also after a process died at any point of a batch or
\* of apply_manual, each syllable whose segment names a file has that clip on
\* disk.
C19_NoDanglingClip ==
    \A s \in Syllables :
        HasField(manifest, s, "file") =>
            /\ FieldOf(manifest, s, "file") = ClipPath(RomanizationOf(manifest, s))
            /\ RomanizationOf(manifest, s) \in DOMAIN clips

\* apply_manual died between the export of the clip and the write of the
\* manifest, after a segmentation had recorded other clips
C19_Witness ==
    /\ inflight["editor"].pc = "idle"
    /\ Has(inflight["editor"], "ret")
    /\ inflight["editor"].ret = "crashed"
    /\ inflight["editor"].call.op = "apply_manual"
    /\ RomanizationOf(manifest, inflight["editor"].call.syllable) \in DOMAIN clips
    /\ ~HasField(manifest, inflight["editor"].call.syllable, "file")
    /\ \E s \in Syllables : HasField(manifest, s, "file")

\* the lifecycle state of a syllable, read off its segment
Shape(m, s) ==
    IF ~HasField(m, s, "file") /\ ~HasField(m, s, "baseline") /\ ~HasField(m, s, "manual")
    THEN "Unset"
    ELSE IF ~HasField(m, s, "file") \/ DOMAIN SegmentOf(m, s) \notin
                SUBSET {"file", "baseline", "manual"}
    THEN "Malformed"
    ELSE IF HasField(m, s, "baseline") /\ HasField(m, s, "manual") THEN "BaselineAndManual"
    ELSE IF HasField(m, s, "baseline") THEN "BaselineOnly"
    ELSE IF HasField(m, s, "manual") THEN "ManualOnly"
    ELSE "Malformed"

\* C20 as stated: in every reachable state each syllable is Unset,
\* BaselineOnly or BaselineAndManual; no operation produces a segment that has
\* a manual and no baseline.
C20_ThreeShapes ==
    \A s \in Syllables :
        Shape(manifest, s) \in {"Unset", "BaselineOnly", "BaselineAndManual"}

\* C20: every operation leaves each syllable Unset, BaselineOnly,
\* BaselineAndManual or with a file and a manual but no baseline; an Unset
\* syllable gets its baseline only from a segmentation run, and a manual
\* without baseline arises only when apply_manual succeeds on an Unset syllable.
C20_FourShapes ==
    [][\A s \in Syllables :
        /\ Shape(manifest', s) \in {"Unset", "BaselineOnly", "BaselineAndManual",
                                     "ManualOnly"}
        /\ (Shape(manifest, s) = "Unset" /\ Shape(manifest', s) = "BaselineOnly") =>
                last'.op \in {"segment_lesson1", "segment_single_row"}
        /\ (Shape(manifest, s) # "ManualOnly" /\ Shape(manifest', s) = "ManualOnly") =>
                /\ last'.op = "apply_manual"
                /\ last'.syllable = s
                /\ last'.ret = "True"
                /\ Shape(manifest, s) = "Unset"]_vars

\* apply_manual on a syllable that was never segmented left it with a file
\* and a manual but no baseline
C20_Witness ==
    /\ last.op = "apply_manual"
    /\ last.ret = "True"
    /\ last.syllable \in Syllables
    /\ Shape(manifest, last.syllable) = "ManualOnly"
    /\ HasField(manifest, last.syllable, "manual")
    /\ ~HasField(manifest, last.syllable, "baseline")

\* the intervals the detector returned for the call
CallDetected(call) ==
    detect_syllable_boundaries(call.audio_path, call.result.effective_params["min_silence"],
                               call.result.effective_params["threshold"])

\* the intervals at the listed positions of a list, in the listed order
AtPositions(intervals, indices) ==
    LET present == SelectSeq(indices, LAMBDA i : i < Len(intervals))
    IN [j \in 1..Len(present) |-> intervals[present[j] + 1]]

\* C21: when the resolved override has use_indices, the intervals kept are
\* those at the listed positions of the detector's full interval list, in the
\* listed order, whatever skip_first and skip_last say.
C21_UseIndicesOverridesSkips ==
    (last.op = "segment_audio_file" /\ Has(CallOverride(last), "use_indices")) =>
        LET kept == AtPositions(CallDetected(last), CallOverride(last)["use_indices"])
            paired == Min(Len(kept), Len(last.syllables))
        IN /\ last.result.segments_saved = paired
           /\ \A j \in 1..paired :
                LET key == romanize_syllable(last.syllables[j])
                IN /\ key \in DOMAIN last.result.timestamps
                   /\ last.result.timestamps[key].start_ms = kept[j][1]
                   /\ last.result.timestamps[key].end_ms = kept[j][2]

\* C22: for every detector output and every combination of skip_first,
\* skip_last and use_indices, skips beyond the detected intervals included,
\* segments_found is the number of intervals the detector returned, and
\* mismatch compares the number left after the directives with the number of
\* expected syllables.
C22_FoundIsPreSkipCount ==
    last.op = "segment_audio_file" =>
        /\ last.result.segments_found = Len(CallDetected(last))
        /\ last.result.mismatch = (Len(CallBoundaries(last)) # Len(last.syllables))

\* the sources a run processed, as positions in Sources(m)
Processed(call, m) ==
    IF call.op = "segment_lesson1" THEN 1..Len(Sources(m))
    ELSE {Len(Get(m, "columns", <<>>)) + t :
            t \in {FindRow(Get(m, "rows", <<>>), call.row_romanization)} \ {0}}

\* C23: after a batch or single-source run that processed a source, a batch
\* that follows immediately with the same base parameters and no reset leaves
\* the source's persisted override as it was and keeps the same intervals for
\* its syllables.
C23_ReproducibleWriteBack ==
    [][(/\ last.op \in {"segment_lesson1", "segment_single_row"}
        /\ last.ret \in {"results", "result"}
        /\ last'.op = "segment_lesson1"
        /\ ~last'.reset_params
        /\ last'.min_silence_len = last.min_silence_len
        /\ last'.silence_thresh = last.silence_thresh
        /\ last'.padding_ms = last.padding_ms)
       => \A i \in Processed(last, manifest) :
            /\ Sources(manifest')[i]["segment_params"] = Sources(manifest)[i]["segment_params"]
            /\ \A s \in Range(Sources(manifest)[i]["syllables"]) :
                    FieldOf(manifest', s, "baseline") = FieldOf(manifest, s, "baseline")]_vars

\* C24: a batch or single-source run loads the manifest once and writes it
\* once, at its end: no step of the run before its last changes the persisted
\* manifest or loads it again.
C24_SingleWriteBack ==
    [][(/\ inflight["segmenter"].pc # "idle"
        /\ inflight'["segmenter"].pc # "idle"
        /\ inflight'["segmenter"] # inflight["segmenter"])
       => /\ manifest' = manifest
          /\ inflight'["segmenter"].pc # "reread"]_vars

\* C25: when the only operation run so far is a batch or single-source run
\* that failed (an undecodable source, or a failure before it returned), the
\* persisted manifest is the one the run found.
C25_FailedRunLeavesManifest ==
    (/\ ops = 1
     /\ inflight["segmenter"].pc = "idle"
     /\ Has(inflight["segmenter"], "ret")
     /\ inflight["segmenter"].ret \in {"raised", "crashed"})
    => manifest = lesson1_create_manifest(parse_pronunciation_table, {"A", "TIKEUT", "KIYEOK"})

\* the columns of m that list syllable s
ColumnsListing(m, s) ==
    {i \in 1..Len(Get(m, "columns", <<>>)) :
        s \in Range(Get(m, "columns", <<>>)[i]["syllables"])}

\* C26 as stated: no syllable of a scraped manifest appears in the syllable
\* lists of two different sources.
C26_OneSourcePerSyllable ==
    \A s \in Syllables : Cardinality(SourcesListing(manifest, s)) <= 1

\* what segmenting row t of m with its persisted parameters gives
RowResult(m, t) ==
    segment_audio_file(m["rows"][t]["file"], m["rows"][t]["syllables"], 200, -40, 50,
                       m["rows"][t]["segment_params"])

\* C26: a syllable appears in at most one row and at most one column; after a
\* batch, the clip and the baseline under every key a readable row produced
\* are the row's, also when a column produced the key as well.
C26_OneRowOneColumn ==
    /\ \A s \in Syllables :
            /\ Cardinality(RowsListing(manifest, s)) <= 1
            /\ Cardinality(ColumnsListing(manifest, s)) <= 1
    /\ (last.op = "segment_lesson1" /\ last.ret = "results") =>
            \A t \in 1..Len(Get(manifest, "rows", <<>>)) :
                audio[manifest["rows"][t]["file"]] = "ok" =>
                    \A k \in DOMAIN RowResult(manifest, t).timestamps :
                        /\ clips[k] = RowResult(manifest, t).exports[k]
                        /\ \A s \in Syllables :
                                RomanizationOf(manifest, s) = k =>
                                    FieldOf(manifest, s, "baseline") =
                                        RowResult(manifest, t).timestamps[k]

\* a batch segmented a column and a row that both list the first syllable;
\* its clip is the row's
C26_Witness ==
    /\ last.op = "segment_lesson1"
    /\ last.ret = "results"
    /\ Ga \in Syllables
    /\ Cardinality(SourcesListing(manifest, Ga)) = 2
    /\ \A i \in SourcesListing(manifest, Ga) : audio[Sources(manifest)[i]["file"]] = "ok"
    /\ "ga" \in DOMAIN clips
    /\ clips["ga"].source = "rows/row_g.mp3"
    /\ HasField(manifest, Ga, "baseline")

\* C27: for every syllable that a source of the manifest lists and the
\* syllable table holds, the key segmentation derives for it is the
\* romanization of its table entry.
C27_KeyConsistency ==
    \A s \in Syllables :
        SourcesListing(manifest, s) # {} =>
            romanize_syllable(s) = RomanizationOf(manifest, s)

\* len(audio) of the row that lists syllable s
OwnerLen(m, s) ==
    AudioLen(m["rows"][CHOOSE r \in RowsListing(m, s) : TRUE]["file"])

InOrder(t, len_audio) ==
    /\ 0 <= t.padded_start_ms
    /\ t.padded_start_ms <= t.start_ms
    /\ t.start_ms <= t.end_ms
    /\ t.end_ms <= t.padded_end_ms
    /\ t.padded_end_ms <= len_audio

\* C28: every baseline and every manual in the manifest, whatever integers
\* apply_manual was given, satisfies 0 <= padded_start_ms <= start_ms <=
\* end_ms <= padded_end_ms <= length of the owning source's audio.
C28_TimeRangesInOrder ==
    \A s \in Syllables :
        /\ HasField(manifest, s, "manual") =>
                InOrder(FieldOf(manifest, s, "manual"), OwnerLen(manifest, s))
        /\ HasField(manifest, s, "baseline") =>
                \E i \in SourcesListing(manifest, s) :
                    InOrder(FieldOf(manifest, s, "baseline"),
                            AudioLen(Sources(manifest)[i]["file"]))

\* the entries of existing that are still present in entries, paired by
\* character
StillPresent(entries, existing) ==
    {<<i, j>> \in (1..Len(entries)) \X (1..Len(existing)) :
        entries[i]["char"] = existing[j]["char"]}

\* C29: scraping again over an existing manifest keeps the segment_params of
\* every source that is still present and leaves every syllable's segment
\* record (file, baseline, manual) as it was.
C29_RescrapeKeepsSegmentation ==
    [][last'.op = "scrape" =>
        /\ \A p \in StillPresent(Sources(manifest'), Sources(manifest)) :
                Get(Sources(manifest')[p[1]], "segment_params", EmptyDict) =
                    Get(Sources(manifest)[p[2]], "segment_params", EmptyDict)
        /\ \A s \in Syllables :
                /\ s \in DOMAIN manifest'["syllable_table"]
                /\ SegmentOf(manifest', s) = SegmentOf(manifest, s)]_vars

\* C30: in segment_single_row the values the caller passes are the ones used,
\* for every source file: the numeric values are the effective ones and the
\* intervals kept are the detected ones without the first skip_first and the
\* last skip_last, whatever the default table and the persisted override say.
C30_SingleRowCallerDecides ==
    (last.op = "segment_single_row" /\ last.ret = "result") =>
        LET row == manifest["rows"][FindRow(manifest["rows"], last.row_romanization)]
            kept == DropLast(DropFirst(
                        detect_syllable_boundaries(row["file"], last.min_silence,
                                                   last.threshold),
                        last.skip_first), last.skip_last)
        IN /\ row["segment_params"]["min_silence"] = last.min_silence
           /\ row["segment_params"]["threshold"] = last.threshold
           /\ row["segment_params"]["padding"] = last.padding
           /\ \A j \in 1..Min(Len(kept), Len(row["syllables"])) :
                /\ HasField(manifest, row["syllables"][j], "baseline")
                /\ FieldOf(manifest, row["syllables"][j], "baseline") =
                        SegmentTimestamp(kept[j][1], kept[j][2],
                                         Max(0, kept[j][1] - last.padding),
                                         Min(AudioLen(row["file"]), kept[j][2] + last.padding))

====
